---- MODULE Spec2Model ----
(***************************************************************************)
(* A model of the triangulation state of the 3d-CDT Monte-Carlo code:      *)
(* Pool and Bag (pool.hpp, bag.hpp), Tetra and Vertex (tetra.hpp,          *)
(* vertex.hpp/.cpp), Universe::initialize and the seven Universe moves     *)
(* (universe.cpp), called the way Simulation::move* calls them             *)
(* (simulation.cpp).  Labels are the plain integers the code uses, a       *)
(* destroyed pool slot keeps its last contents, and a failed assert stops  *)
(* the program.                                                            *)
(***************************************************************************)
EXTENDS Integers, Sequences, FiniteSets, TLC

VARIABLES Vertex, Tetra, tetrasAll, tetras31, verticesAll,
          slabSizes, sliceSizes, nSlices, strictness,
          vertices, vertexNeighbors, HalfEdge, halfEdges,
          Triangle, triangles, outFile,
          caller,
          config, targetVolume, target2Volume, k3, rng, pc, iteration,
          attemptsLeft, log,
          aborted, movesLeft, lastMove

vars == <<Vertex, Tetra, tetrasAll, tetras31, verticesAll,
          slabSizes, sliceSizes, nSlices, strictness,
          vertices, vertexNeighbors, HalfEdge, halfEdges,
          Triangle, triangles, outFile,
          caller,
          config, targetVolume, target2Volume, k3, rng, pc, iteration,
          attemptsLeft, log,
          aborted, movesLeft, lastMove>>

(***************************************************************************)
(* Bounds of the model.                                                    *)
(***************************************************************************)
\* slots of Pool<Vertex> (Vertex::pool_size in the code, scaled down)
VertexCap == 11
\* slots of Pool<Tetra> (Tetra::pool_size in the code, scaled down)
TetraCap == 40
\* number of moves that change the triangulation along one run
MaxMoves == 2
\* the same for a run that attempts flip moves only
MaxFlips == 5
\* the same for a run whose geometry is updated and exported
MaxMeasured == 1
\* slots of Pool<HalfEdge> (HalfEdge::pool_size in the code, scaled down)
HalfEdgeCap == 48
\* slots of Pool<Triangle> (Triangle::pool_size in the code, scaled down)
TriangleCap == 16
\* number of labels that a run of calls of Pool<Vertex> and verticesAll uses
MaxLabels == 3
\* move attempts of one sweep for ksteps = 1 (1000 in the code, scaled down)
SweepUnit == 1
\* the largest ksteps of a call of performSweep looked at on its own
MaxSweep == 2
\* the largest radius of a call of Observable::sphere
MaxRadius == 2

(***************************************************************************)
(* Program constants.                                                      *)
(***************************************************************************)
EMPTY == -1
NoLabel == -1
StrictnessLevels == {0, 1, 2, 3}

\* the C++ operator ~ on int
BitNot(x) == -x - 1

Range(s) == {s[i] : i \in DOMAIN s}

\* first 1-based position of x in the tuple s, 0 when absent
IndexOf(s, x) ==
    IF \E i \in DOMAIN s : s[i] = x
    THEN CHOOSE i \in DOMAIN s : s[i] = x /\ \A j \in DOMAIN s : s[j] = x => i <= j
    ELSE 0

(***************************************************************************)
(* Pool<T>: a fixed array of records; the free list is threaded through    *)
(* the field next (~index of the next free slot), a live slot holds its    *)
(* own index there.                                                        *)
(***************************************************************************)
PoolInit(cap, blank) ==
    [elements |-> [i \in 0..(cap - 1) |-> [blank EXCEPT !.next = BitNot(i + 1)]],
     first |-> 0,
     total |-> 0]

PoolCreate(p) ==
    [elements |-> [p.elements EXCEPT ![p.first].next = p.first],
     first |-> BitNot(p.elements[p.first].next),
     total |-> p.total + 1]

\* destroy with the line total-- left out
PoolDestroyKeepsTotal(p, i) ==
    [elements |-> [p.elements EXCEPT ![i].next = BitNot(p.first)],
     first |-> i,
     total |-> p.total]

PoolDestroy(p, i) ==
    [elements |-> [p.elements EXCEPT ![i].next = BitNot(p.first)],
     first |-> i,
     total |-> p.total - 1]

PoolSize(p) == p.total

\* the labels of the live slots of a pool
Live(p) == {i \in DOMAIN p.elements : p.elements[i].next >= 0}

(***************************************************************************)
(* Bag<T, N>: a dense array elements[0..size) and the sparse index.        *)
(***************************************************************************)
BagInit(cap) ==
    [indices |-> [i \in 0..(cap - 1) |-> EMPTY],
     elements |-> [i \in 0..(cap - 1) |-> 0],
     size |-> 0]

BagContains(b, obj) == b.indices[obj] # EMPTY

BagAdd(b, obj) ==
    [indices |-> [b.indices EXCEPT ![obj] = b.size],
     elements |-> [b.elements EXCEPT ![b.size] = obj],
     size |-> b.size + 1]

\* remove with the line indices[last] = index left out
BagRemoveKeepsIndex(b, obj) ==
    LET size == b.size - 1
        index == b.indices[obj]
        last == b.elements[size]
        e1 == [b.elements EXCEPT ![index] = last]
        e2 == [e1 EXCEPT ![size] = EMPTY]
        i2 == [b.indices EXCEPT ![obj] = EMPTY]
    IN [indices |-> i2, elements |-> e2, size |-> size]

BagRemove(b, obj) ==
    LET size == b.size - 1
        index == b.indices[obj]
        last == b.elements[size]
        e1 == [b.elements EXCEPT ![index] = last]
        e2 == [e1 EXCEPT ![size] = EMPTY]
        i1 == [b.indices EXCEPT ![last] = index]
        i2 == [i1 EXCEPT ![obj] = EMPTY]
    IN [indices |-> i2, elements |-> e2, size |-> size]

\* the labels a range-for over the bag visits, in order
BagSeq(b) == [i \in 1..b.size |-> b.elements[i - 1]]

BagSet(b) == {b.elements[i] : i \in 0..(b.size - 1)}

(***************************************************************************)
(* The Universe as one record u, threaded through the statements of a      *)
(* function.  u.ok is FALSE once an assert has failed (every later         *)
(* statement is then skipped), u.ret is the value returned, u.g is what an *)
(* uninitialised int reads as, u.ub records that one was read.             *)
(***************************************************************************)
T(u, t) == u.Tetra.elements[t]
V(u, v) == u.Vertex.elements[v]

Fail(u) == [u EXCEPT !.ok = FALSE]

Check(u, cond) == IF ~u.ok THEN u ELSE IF cond THEN u ELSE Fail(u)

\* a bug to test the claims against: the answer false is given only after
\* Tetra::create() has been called
ReturnAfterCreate(u, b) ==
    IF ~u.ok THEN u
    ELSE IF b THEN [u EXCEPT !.ret = TRUE]
    ELSE [u EXCEPT !.ret = FALSE, !.Tetra = PoolCreate(@)]

Return(u, b) == IF ~u.ok THEN u ELSE [u EXCEPT !.ret = b]

VertexCreate(u) ==
    IF ~u.ok THEN u
    ELSE IF u.Vertex.first >= VertexCap THEN Fail(u)
    ELSE IF u.Vertex.elements[u.Vertex.first].next >= 0 THEN Fail(u)
    ELSE [u EXCEPT !.Vertex = PoolCreate(@)]

TetraCreate(u) ==
    IF ~u.ok THEN u
    ELSE IF u.Tetra.first >= TetraCap THEN Fail(u)
    ELSE IF u.Tetra.elements[u.Tetra.first].next >= 0 THEN Fail(u)
    ELSE [u EXCEPT !.Tetra = PoolCreate(@)]

VertexDestroy(u, v) == IF ~u.ok THEN u ELSE [u EXCEPT !.Vertex = PoolDestroy(@, v)]

\* TetraDestroy with Pool::destroy left out
TetraDestroySkipped(u, t) == u

TetraDestroy(u, t) == IF ~u.ok THEN u ELSE [u EXCEPT !.Tetra = PoolDestroy(@, t)]

\* add with tetras31.add left out
addSkipsTetras31(u, bag, obj) ==
    IF ~u.ok THEN u
    ELSE IF bag = "tetras31" THEN u
    ELSE IF BagContains(u[bag], obj) THEN Fail(u)
    ELSE [u EXCEPT ![bag] = BagAdd(@, obj)]

\* bag is the name of one of the three Bags of the Universe
add(u, bag, obj) ==
    IF ~u.ok THEN u
    ELSE IF BagContains(u[bag], obj) THEN Fail(u)
    ELSE [u EXCEPT ![bag] = BagAdd(@, obj)]

\* remove with tetras31.remove left out
removeKeepsTetras31(u, bag, obj) ==
    IF ~u.ok THEN u
    ELSE IF bag = "tetras31" THEN u
    ELSE IF ~BagContains(u[bag], obj) THEN Fail(u)
    ELSE [u EXCEPT ![bag] = BagRemove(@, obj)]

remove(u, bag, obj) ==
    IF ~u.ok THEN u
    ELSE IF ~BagContains(u[bag], obj) THEN Fail(u)
    ELSE [u EXCEPT ![bag] = BagRemove(@, obj)]

(***************************************************************************)
(* Tetra (tetra.hpp).  vs and tnbr are tuples, C++ index i is position     *)
(* i + 1.                                                                  *)
(***************************************************************************)
is31(u, t) == T(u, t).type = "31"
is13(u, t) == T(u, t).type = "13"
is22(u, t) == T(u, t).type = "22"

hasVertex(u, t, v) == \E i \in 1..4 : T(u, t).vs[i] = v

neighborsTetra(u, t, tn) == \E i \in 1..4 : T(u, t).tnbr[i] = tn

\* the type is assigned only when one of the three tests holds, otherwise
\* the slot keeps the type it had
setVertices(u, t, v0, v1, v2, v3) ==
    IF ~u.ok THEN u
    ELSE LET t0 == V(u, v0).time
             t1 == V(u, v1).time
             t2 == V(u, v2).time
             t3 == V(u, v3).time
             ty0 == T(u, t).type
             ty1 == IF t0 = t1 /\ t0 = t2 THEN "31" ELSE ty0
             ty2 == IF t1 = t2 /\ t1 = t3 THEN "13" ELSE ty1
             ty3 == IF t0 = t1 /\ t2 = t3 THEN "22" ELSE ty2
         IN IF t0 = t3 THEN Fail(u)
            ELSE [u EXCEPT !.Tetra.elements[t].type = ty3,
                           !.Tetra.elements[t].vs = <<v0, v1, v2, v3>>,
                           !.Tetra.elements[t].time = t0]

setTetras(u, t, t0, t1, t2, t3) ==
    IF ~u.ok THEN u
    ELSE [u EXCEPT !.Tetra.elements[t].tnbr = <<t0, t1, t2, t3>>]

\* the value of t->getTetraOpposite(v); its assert is AssertHas
getTetraOpposite(u, t, v) ==
    IF ~u.ok \/ t = NoLabel THEN NoLabel
    ELSE LET i == IndexOf(T(u, t).vs, v)
         IN IF i = 0 THEN NoLabel ELSE T(u, t).tnbr[i]

AssertHas(u, t, v) == IF ~u.ok THEN u ELSE Check(u, hasVertex(u, t, v))

\* the value of t->getVertexOppositeTetra(tn); its assert is AssertNbr
getVertexOppositeTetra(u, t, tn) ==
    IF ~u.ok \/ t = NoLabel THEN NoLabel
    ELSE LET i == IndexOf(T(u, t).tnbr, tn)
         IN IF i = 0 THEN NoLabel ELSE T(u, t).vs[i]

AssertNbr(u, t, tn) == IF ~u.ok THEN u ELSE Check(u, neighborsTetra(u, t, tn))

\* face[] of getVertexOpposite: the vertices of t other than v, in order;
\* when v occurs twice in t the last slot of face[] is never written
Face(u, t, v) ==
    LET f == SelectSeq(T(u, t).vs, LAMBDA x : x # v)
    IN IF Len(f) = 3 THEN f
       ELSE IF Len(f) = 2 THEN f \o <<u.g>>
       ELSE f \o <<u.g, u.g>>

\* the value of t->getVertexOpposite(v), NoLabel when no vertex of the
\* neighbour is off the face (assert(false))
getVertexOpposite(u, t, v) ==
    IF ~u.ok \/ t = NoLabel THEN NoLabel
    ELSE IF ~hasVertex(u, t, v) THEN NoLabel
    ELSE LET tn == getTetraOpposite(u, t, v)
             face == Face(u, t, v)
             off == SelectSeq(T(u, tn).vs, LAMBDA x : x \notin Range(face))
         IN IF Len(off) = 0 THEN NoLabel ELSE off[1]

\* the asserts of getVertexOpposite, and the note that face[] was read
\* with a slot unwritten
AssertOpp(u, t, v) ==
    IF ~u.ok THEN u
    ELSE IF ~hasVertex(u, t, v) THEN Fail(u)
    ELSE LET u1 == IF Len(SelectSeq(T(u, t).vs, LAMBDA x : x # v)) < 3
                   THEN [u EXCEPT !.ub = TRUE] ELSE u
         IN Check(u1, getVertexOpposite(u, t, v) # NoLabel)

\* a variant that leaves the neighbour as it is
exchangeTetraOppositeSkipped(u, t, v, tn) == u

exchangeTetraOpposite(u, t, v, tn) ==
    IF ~u.ok THEN u
    ELSE [u EXCEPT !.Tetra.elements[t].tnbr =
              [i \in 1..4 |-> IF T(u, t).vs[i] = v THEN tn ELSE @[i]]]

(***************************************************************************)
(* Vertex::neighborsVertex (vertex.cpp): a breadth-first search from       *)
(* vc->tetra through the neighbours that contain vc.                       *)
(***************************************************************************)
RECURSIVE Visited(_, _, _, _)
Visited(u, vc, current, done) ==
    LET next == {tcn \in UNION {Range(T(u, tc).tnbr) : tc \in current} :
                     hasVertex(u, tcn, vc) /\ tcn \notin done}
    IN IF next = {} THEN done ELSE Visited(u, vc, next, done \cup next)

\* a variant that finds no edge
neighborsVertexNever(u, vc, v) == FALSE

neighborsVertex(u, vc, v) ==
    IF v = vc THEN FALSE
    ELSE \E tcn \in Visited(u, vc, {V(u, vc).tetra}, {}) : hasVertex(u, tcn, v)

(***************************************************************************)
(* Statements that occur in Universe, each as one step on the record u.    *)
(* A step that reads through a pointer reads the record as it is when the  *)
(* statement runs.                                                         *)
(***************************************************************************)
Ok(u) == u.ok

\* evaluates the listed steps in program order and yields the last one
InOrder(steps) == steps[Len(steps)]

SetVertex(u, v, field, x) ==
    IF ~u.ok THEN u ELSE [u EXCEPT !.Vertex.elements[v][field] = x]

\* a variant that counts every change twice
AddVertexTwice(u, v, field, d) ==
    IF ~u.ok THEN u ELSE [u EXCEPT !.Vertex.elements[v][field] = @ + 2 * d]

AddVertex(u, v, field, d) ==
    IF ~u.ok THEN u ELSE [u EXCEPT !.Vertex.elements[v][field] = @ + d]

\* t->vs[0]->tetra = t; t->vs[1]->tetra = t; t->vs[2]->tetra = t
SetBaseTetra(u, t) ==
    IF ~u.ok THEN u
    ELSE [u EXCEPT !.Vertex.elements =
              [v \in DOMAIN @ |->
                  IF \E i \in 1..3 : T(u, t).vs[i] = v
                  THEN [@[v] EXCEPT !.tetra = t] ELSE @[v]]]

\* AddSize with an amount that is taken off counted twice
AddSizeTakenTwice(u, vec, i, d) ==
    IF ~u.ok THEN u
    ELSE IF i \notin DOMAIN u[vec] THEN Fail(u)
    ELSE [u EXCEPT ![vec][i] = IF d < 0 THEN @ + 2 * d ELSE @ + d]

\* AddSize with the amount counted twice
AddSizeTwice(u, vec, i, d) ==
    IF ~u.ok THEN u
    ELSE IF i \notin DOMAIN u[vec] THEN Fail(u)
    ELSE [u EXCEPT ![vec][i] = @ + 2 * d]

\* vector::at and vector::operator[] on slabSizes / sliceSizes; an index
\* outside the vector ends the run
AddSize(u, vec, i, d) ==
    IF ~u.ok THEN u
    ELSE IF i \notin DOMAIN u[vec] THEN Fail(u)
    ELSE [u EXCEPT ![vec][i] = @ + d]

\* vec[t->vs[i]->time] += d, i counted from 1
AddSizeAtTimeOf(u, vec, t, i, d) ==
    IF ~u.ok THEN u ELSE AddSize(u, vec, V(u, T(u, t).vs[i]).time, d)

\* ta->exchangeTetraOpposite(t->getVertexOpposite(v), tn)
exchangeOppositeVertex(u, ta, t, v, tn) ==
    IF ~u.ok THEN u
    ELSE exchangeTetraOpposite(AssertOpp(u, t, v), ta, getVertexOpposite(u, t, v), tn)

\* ta->exchangeTetraOpposite(t->getTetraOpposite(v), tn): the label of a
\* tetrahedron is handed over as the label of a vertex
exchangeOppositeTetra(u, ta, t, v, tn) ==
    IF ~u.ok THEN u
    ELSE exchangeTetraOpposite(AssertHas(u, t, v), ta, getTetraOpposite(u, t, v), tn)

\* t->tnbr[j]->exchangeTetraOpposite(t->tnbr[j]->vs[i], tn), i and j from 1
exchangeVertical(u, t, j, i, tn) ==
    IF ~u.ok THEN u
    ELSE exchangeTetraOpposite(u, T(u, t).tnbr[j], T(u, T(u, t).tnbr[j]).vs[i], tn)

\* the label the k-th of k successive calls of Pool::create returns
RECURSIVE NthFree(_, _)
NthFree(p, k) ==
    IF k = 1 THEN p.first
    ELSE LET prev == NthFree(p, k - 1)
         IN IF prev \in DOMAIN p.elements THEN BitNot(p.elements[prev].next) ELSE prev

\* position (1..3) of v among the base vertices vs[0..2] of t, 0 when absent
BasePos(u, t, v) == IndexOf(SubSeq(T(u, t).vs, 1, 3), v)

\* vs[(pos + k) % 3] for a 1-based pos, NoLabel when pos is 0
BaseAt(u, t, pos, k) ==
    IF pos = 0 THEN NoLabel ELSE T(u, t).vs[((pos - 1 + k) % 3) + 1]

(***************************************************************************)
(* Universe::initialize (universe.cpp).  A geometry file is the record     *)
(* [ordered, n0, times, n0check, n3, tetras, n3check]; tetras[i] is the    *)
(* pair <<vs, tnbr>> of the i-th tetrahedron, with the labels of the file. *)
(***************************************************************************)
BlankVertex == [next |-> 0, time |-> 0, scnum |-> 0, cnum |-> 0, tetra |-> NoLabel]

BlankTetra ==
    [next |-> 0, time |-> 0, type |-> "none",
     vs |-> <<NoLabel, NoLabel, NoLabel, NoLabel>>,
     tnbr |-> <<NoLabel, NoLabel, NoLabel, NoLabel>>,
     hes |-> <<NoLabel, NoLabel, NoLabel>>]

\* the statics of Universe, Pool and Bag before initialize runs
BlankUniverse(strictness_) ==
    [Vertex |-> PoolInit(VertexCap, BlankVertex),
     Tetra |-> PoolInit(TetraCap, BlankTetra),
     tetrasAll |-> BagInit(TetraCap),
     tetras31 |-> BagInit(TetraCap),
     verticesAll |-> BagInit(VertexCap),
     slabSizes |-> <<>>,
     sliceSizes |-> <<>>,
     nSlices |-> 0,
     strictness |-> strictness_,
     ok |-> TRUE, ret |-> FALSE, ub |-> FALSE, g |-> NoLabel]

MaxOf(s) == IF s = {} THEN 0 ELSE CHOOSE x \in s : \A y \in s : y <= x

\* lines 59-63
Resize(u, maxTime) ==
    IF ~u.ok THEN u
    ELSE [u EXCEPT !.nSlices = maxTime + 1,
                   !.slabSizes = [i \in 0..maxTime |-> 0],
                   !.sliceSizes = [i \in 0..maxTime |-> 0]]

\* the body of the loop of lines 48-55 for the vertex label v just created
ReadVertex(u, v, time) == SetVertex(add(u, "verticesAll", v), v, "time", time)

RECURSIVE ReadVertices(_, _, _)
ReadVertices(u, times, i) ==
    IF ~u.ok \/ i > Len(times) THEN u
    ELSE ReadVertices(ReadVertex(VertexCreate(u), u.Vertex.first, times[i]), times, i + 1)

\* lines 75-84 for the tetrahedron label t just created
ReadTetra(u, t, tvs, tts) ==
    IF ~u.ok THEN u
    ELSE IF \E j \in 1..4 : tvs[j] \notin DOMAIN u.Vertex.elements THEN Fail(u)
    ELSE LET u1 == setVertices(u, t, tvs[1], tvs[2], tvs[3], tvs[4])
             is31_ == Ok(u1) /\ is31(u1, t)
             u2 == IF is31_ THEN SetBaseTetra(u1, t) ELSE u1
             u3 == add(setTetras(u2, t, tts[1], tts[2], tts[3], tts[4]), "tetrasAll", t)
             u4 == IF is31_ THEN add(u3, "tetras31", t) ELSE u3
             u5 == AddSizeAtTimeOf(u4, "slabSizes", t, 2, 1)
         IN IF is31_ THEN AddSizeAtTimeOf(u5, "sliceSizes", t, 1, 1) ELSE u5

RECURSIVE ReadTetras(_, _, _)
ReadTetras(u, tetras, i) ==
    IF ~u.ok \/ i > Len(tetras) THEN u
    ELSE ReadTetras(ReadTetra(TetraCreate(u), u.Tetra.first, tetras[i][1], tetras[i][2]),
                    tetras, i + 1)

\* the last neighbour of t, in tnbr order, that is caught by test number k
\* of the chain of tests of lines 95-98, -1 when there is none
Opposite(u, t, k) ==
    LET vs == T(u, t).vs
        tnbr == T(u, t).tnbr
        caught(tn) == IF ~hasVertex(u, tn, vs[4]) THEN 1
                      ELSE IF ~hasVertex(u, tn, vs[3]) THEN 2
                      ELSE IF ~hasVertex(u, tn, vs[2]) THEN 3
                      ELSE IF ~hasVertex(u, tn, vs[1]) THEN 4
                      ELSE 0
        hits == {j \in 1..4 : caught(tnbr[j]) = k}
    IN IF hits = {} THEN NoLabel ELSE tnbr[MaxOf(hits)]

\* lines 92-101 for one tetrahedron
ReorderOne(u, t) ==
    IF ~u.ok THEN u
    ELSE IF \E k \in 1..4 : Opposite(u, t, k) < 0 THEN Fail(u)
    ELSE setTetras(u, t, Opposite(u, t, 4), Opposite(u, t, 3),
                   Opposite(u, t, 2), Opposite(u, t, 1))

RECURSIVE Reorder(_, _)
Reorder(u, i) ==
    IF ~u.ok \/ i >= u.tetrasAll.size THEN u
    ELSE Reorder(ReorderOne(u, u.tetrasAll.elements[i]), i + 1)

\* lines 106-113 for one vertex
CountOne(u, v) ==
    LET ts == BagSet(u.tetrasAll)
        cnum == Cardinality({t \in ts : hasVertex(u, t, v)})
        scnum == Cardinality({t \in ts : is31(u, t) /\ hasVertex(u, t, v)
                                           /\ T(u, t).vs[4] # v})
    IN SetVertex(SetVertex(u, v, "scnum", scnum), v, "cnum", cnum)

\* the loop of lines 105-114; the local vector vs holds the labels in the
\* order they were created, which is the order of verticesAll
RECURSIVE CountCoordination(_, _)
CountCoordination(u, i) ==
    IF ~u.ok \/ i >= u.verticesAll.size THEN u
    ELSE CountCoordination(CountOne(u, u.verticesAll.elements[i]), i + 1)

initialize(file, strictness_) ==
    LET u1 == ReadVertices(BlankUniverse(strictness_), file.times, 1)
        maxTime == MaxOf(Range(file.times) \cup {0})
        u3 == ReadTetras(Resize(u1, maxTime), file.tetras, 1)
        u4 == IF file.ordered THEN u3 ELSE Reorder(u3, 0)
    IN IF file.n0check # file.n0 THEN Return(u1, FALSE)
       ELSE IF file.n3check # file.n3 THEN Return(u3, FALSE)
       ELSE Return(CountCoordination(u4, 0), TRUE)

(***************************************************************************)
(* Universe::move26 (universe.cpp).  In each move the local variables are  *)
(* named as in the code; a1, b1, ... are the states between statements.    *)
(***************************************************************************)
move26(u, t) ==
    LET time == V(u, T(u, t).vs[1]).time
        tv == T(u, t).tnbr[4]
        vn == u.Vertex.first
        v0 == T(u, t).vs[1]
        v1 == T(u, t).vs[2]
        v2 == T(u, t).vs[3]
        vt == T(u, t).vs[4]
        vb == T(u, tv).vs[1]
        tn01 == NthFree(u.Tetra, 1)
        tn12 == NthFree(u.Tetra, 2)
        tn20 == NthFree(u.Tetra, 3)
        tvn01 == NthFree(u.Tetra, 4)
        tvn12 == NthFree(u.Tetra, 5)
        tvn20 == NthFree(u.Tetra, 6)
        to0 == getTetraOpposite(u, t, v0)
        to1 == getTetraOpposite(u, t, v1)
        to2 == getTetraOpposite(u, t, v2)
        tvo0 == getTetraOpposite(u, tv, v0)
        tvo1 == getTetraOpposite(u, tv, v1)
        tvo2 == getTetraOpposite(u, tv, v2)
        a1 == Check(Check(u, is31(u, t)), is13(u, tv))
        a2 == add(VertexCreate(a1), "verticesAll", vn)
        a3 == SetVertex(SetVertex(SetVertex(a2, vn, "time", time),
                                  vn, "scnum", 3), vn, "cnum", 6)
        b1 == TetraCreate(TetraCreate(TetraCreate(a3)))
        b2 == TetraCreate(TetraCreate(TetraCreate(b1)))
        c1 == add(add(add(b2, "tetrasAll", tn01), "tetrasAll", tn12), "tetrasAll", tn20)
        c2 == add(add(add(c1, "tetras31", tn01), "tetras31", tn12), "tetras31", tn20)
        c3 == add(add(add(c2, "tetrasAll", tvn01), "tetrasAll", tvn12), "tetrasAll", tvn20)
        c4 == AssertHas(AssertHas(AssertHas(c3, t, v0), t, v1), t, v2)
        c5 == AssertHas(AssertHas(AssertHas(c4, tv, v0), tv, v1), tv, v2)
        d1 == setVertices(c5, tn01, v0, v1, vn, vt)
        d2 == setVertices(d1, tn12, v1, v2, vn, vt)
        d3 == setVertices(d2, tn20, v2, v0, vn, vt)
        d4 == setVertices(d3, tvn01, vb, v0, v1, vn)
        d5 == setVertices(d4, tvn12, vb, v1, v2, vn)
        d6 == setVertices(d5, tvn20, vb, v2, v0, vn)
        e1 == setTetras(d6, tn01, tn12, tn20, to2, tvn01)
        e2 == setTetras(e1, tn12, tn20, tn01, to0, tvn12)
        e3 == setTetras(e2, tn20, tn01, tn12, to1, tvn20)
        e4 == setTetras(e3, tvn01, tn01, tvn12, tvn20, tvo2)
        e5 == setTetras(e4, tvn12, tn12, tvn20, tvn01, tvo0)
        e6 == setTetras(e5, tvn20, tn20, tvn01, tvn12, tvo1)
        f1 == exchangeOppositeVertex(e6, to0, t, v0, tn12)
        f2 == exchangeOppositeVertex(f1, to1, t, v1, tn20)
        f3 == exchangeOppositeVertex(f2, to2, t, v2, tn01)
        f4 == exchangeOppositeVertex(f3, tvo0, tv, v0, tvn12)
        f5 == exchangeOppositeVertex(f4, tvo1, tv, v1, tvn20)
        f6 == exchangeOppositeVertex(f5, tvo2, tv, v2, tvn01)
        g1 == AddSize(f6, "slabSizes", time, 2)
        g2 == AddSize(g1, "slabSizes", (time - 1 + u.nSlices) % u.nSlices, 2)
        g3 == AddSize(g2, "sliceSizes", time, 2)
        h1 == remove(remove(remove(g3, "tetrasAll", t), "tetras31", t), "tetrasAll", tv)
        h2 == TetraDestroy(TetraDestroy(h1, t), tv)
        i1 == SetVertex(h2, vn, "tetra", tn01)
        i2 == SetVertex(SetVertex(SetVertex(i1, v0, "tetra", tn01),
                                  v1, "tetra", tn12), v2, "tetra", tn20)
        j1 == AddVertex(AddVertex(AddVertex(i2, v0, "scnum", 1), v1, "scnum", 1),
                        v2, "scnum", 1)
        j2 == AddVertex(AddVertex(AddVertex(j1, v0, "cnum", 2), v1, "cnum", 2),
                        v2, "cnum", 2)
        j3 == AddVertex(AddVertex(j2, vt, "cnum", 2), vb, "cnum", 2)
    IN Return(InOrder(<<c3, e3, f6, j3>>), TRUE)

(***************************************************************************)
(* Universe::move62 (universe.cpp).                                        *)
(***************************************************************************)
move62(u, v) ==
    LET time == V(u, v).time
        t01 == V(u, v).tetra
        tv01 == T(u, t01).tnbr[4]
        vpos == BasePos(u, t01, v)
        v0 == BaseAt(u, t01, vpos, 1)
        v1 == BaseAt(u, t01, vpos, 2)
        v2 == getVertexOpposite(u, t01, v0)
        t12 == getTetraOpposite(u, t01, v0)
        t20 == getTetraOpposite(u, t01, v1)
        tv12 == getTetraOpposite(u, tv01, v0)
        tv20 == getTetraOpposite(u, tv01, v1)
        to01 == getTetraOpposite(u, t01, v)
        to12 == getTetraOpposite(u, t12, v)
        to20 == getTetraOpposite(u, t20, v)
        tvo01 == getTetraOpposite(u, tv01, v)
        tvo12 == getTetraOpposite(u, tv12, v)
        tvo20 == getTetraOpposite(u, tv20, v)
        tn == NthFree(u.Tetra, 1)
        tvn == NthFree(u.Tetra, 2)
        vt == T(u, t01).vs[4]
        vb == T(u, tv01).vs[1]
        a1 == Check(Check(u, V(u, v).cnum = 6), vpos > 0)
        a2 == AssertHas(AssertHas(AssertHas(AssertOpp(a1, t01, v0), t01, v1),
                                  tv01, v0), tv01, v1)
        a3 == Check(a2, /\ is31(u, t01) /\ is31(u, t12) /\ is31(u, t20)
                        /\ is13(u, tv01) /\ is13(u, tv12) /\ is13(u, tv20))
        a4 == AssertHas(AssertHas(AssertHas(a3, t01, v), t12, v), t20, v)
        a5 == AssertHas(AssertHas(AssertHas(a4, tv01, v), tv12, v), tv20, v)
        below(n) == V(u, v0).scnum < n \/ V(u, v1).scnum < n \/ V(u, v2).scnum < n
        reject == Ok(a5) /\ (\/ u.strictness = 1 /\ below(3)
                             \/ u.strictness >= 2 /\ below(4))
        b1 == TetraCreate(TetraCreate(a5))
        b2 == add(add(add(b1, "tetrasAll", tn), "tetras31", tn), "tetrasAll", tvn)
        c1 == setVertices(b2, tn, v0, v1, v2, vt)
        c2 == setVertices(c1, tvn, vb, v0, v1, v2)
        c3 == setTetras(c2, tn, to12, to20, to01, tvn)
        c4 == setTetras(c3, tvn, tn, tvo12, tvo20, tvo01)
        d1 == SetVertex(SetVertex(SetVertex(c4, v0, "tetra", tn), v1, "tetra", tn),
                        v2, "tetra", tn)
        d2 == AddVertex(AddVertex(AddVertex(d1, v0, "scnum", -1), v1, "scnum", -1),
                        v2, "scnum", -1)
        d3 == AddVertex(AddVertex(AddVertex(d2, v0, "cnum", -2), v1, "cnum", -2),
                        v2, "cnum", -2)
        d4 == AddVertex(AddVertex(d3, vt, "cnum", -2), vb, "cnum", -2)
        e1 == exchangeOppositeVertex(d4, to01, t01, v, tn)
        e2 == exchangeOppositeVertex(e1, to12, t12, v, tn)
        e3 == exchangeOppositeVertex(e2, to20, t20, v, tn)
        e4 == exchangeOppositeVertex(e3, tvo01, tv01, v, tvn)
        e5 == exchangeOppositeVertex(e4, tvo12, tv12, v, tvn)
        e6 == exchangeOppositeVertex(e5, tvo20, tv20, v, tvn)
        f1 == remove(remove(remove(e6, "tetrasAll", t01), "tetrasAll", t12),
                     "tetrasAll", t20)
        f2 == remove(remove(remove(f1, "tetras31", t01), "tetras31", t12),
                     "tetras31", t20)
        f3 == remove(remove(remove(f2, "tetrasAll", tv01), "tetrasAll", tv12),
                     "tetrasAll", tv20)
        f4 == TetraDestroy(TetraDestroy(TetraDestroy(f3, t01), t12), t20)
        f5 == TetraDestroy(TetraDestroy(TetraDestroy(f4, tv01), tv12), tv20)
        f6 == VertexDestroy(remove(f5, "verticesAll", v), v)
        g1 == AddSize(f6, "slabSizes", time, -2)
        g2 == AddSize(g1, "slabSizes", (time - 1 + u.nSlices) % u.nSlices, -2)
        g3 == AddSize(g2, "sliceSizes", time, -2)
    IN IF reject THEN Return(a5, FALSE)
       ELSE Return(InOrder(<<c4, e3, f3, g3>>), TRUE)

(***************************************************************************)
(* Universe::move44 (universe.cpp).  The four getVertexOpposite calls of   *)
(* lines 320-323 come after setVertices and setTetras have rewritten t012, *)
(* t230 and their vertical neighbours, and read the rewritten records.     *)
(***************************************************************************)
\* the assert of line 329
CheckScnum(u, v0, v2) ==
    IF ~u.ok \/ u.strictness < 2 THEN u
    ELSE Check(u, V(u, v0).scnum >= 3 /\ V(u, v2).scnum >= 3)

move44(u, t012, t230) ==
    LET v1 == getVertexOppositeTetra(u, t012, t230)
        v3 == getVertexOppositeTetra(u, t230, t012)
        \* pos = 0 would leave v0 and v2 unset; every caller takes t230 from
        \* tnbr[0..2] of t012, which puts v1 among vs[0..2]
        pos == BasePos(u, t012, v1)
        v2 == BaseAt(u, t012, pos, 1)
        v0 == BaseAt(u, t012, pos, 2)
        tv012 == T(u, t012).tnbr[4]
        tv230 == T(u, t230).tnbr[4]
        a1 == Check(AssertNbr(AssertNbr(u, t012, t230), t230, t012), pos > 0)
        reject1 == Ok(a1) /\
                   (\/ u.strictness >= 1 /\ v1 = v3
                    \/ u.strictness >= 2 /\ (V(u, v0).scnum = 3 \/ V(u, v2).scnum = 3)
                    \/ u.strictness >= 3 /\ neighborsVertex(u, v1, v3))
        vt == T(u, t012).vs[4]
        vb == T(u, tv012).vs[1]
        ta01 == getTetraOpposite(u, t012, v2)
        ta12 == getTetraOpposite(u, t012, v0)
        ta23 == getTetraOpposite(u, t230, v0)
        ta30 == getTetraOpposite(u, t230, v2)
        tva01 == getTetraOpposite(u, tv012, v2)
        tva12 == getTetraOpposite(u, tv012, v0)
        tva23 == getTetraOpposite(u, tv230, v0)
        tva30 == getTetraOpposite(u, tv230, v2)
        a2 == AssertHas(AssertHas(AssertHas(AssertHas(a1, t012, v2), t012, v0),
                                  t230, v0), t230, v2)
        a3 == AssertHas(AssertHas(AssertHas(AssertHas(a2, tv012, v2), tv012, v0),
                                  tv230, v0), tv230, v2)
        reject2 == Ok(a3) /\ (ta01 = t230 \/ ta23 = t012 \/ tva01 = tv230 \/ tva23 = tv012)
        tn013 == t230
        tn123 == t012
        tvn013 == tv230
        tvn123 == tv012
        b1 == setVertices(a3, tn013, v0, v1, v3, vt)
        b2 == setVertices(b1, tn123, v1, v2, v3, vt)
        b3 == setVertices(b2, tvn013, vb, v0, v1, v3)
        b4 == setVertices(b3, tvn123, vb, v1, v2, v3)
        c1 == setTetras(b4, tn013, tn123, ta30, ta01, tvn013)
        c2 == setTetras(c1, tn123, ta23, tn013, ta12, tvn123)
        c3 == setTetras(c2, tvn013, tn013, tvn123, tva30, tva01)
        c4 == setTetras(c3, tvn123, tn123, tva23, tvn013, tva12)
        d1 == exchangeOppositeVertex(c4, ta01, t012, v2, tn013)
        d2 == exchangeOppositeVertex(d1, ta23, t230, v0, tn123)
        d3 == exchangeOppositeVertex(d2, tva01, tv012, v2, tvn013)
        d4 == exchangeOppositeVertex(d3, tva23, tv230, v0, tvn123)
        e1 == AddVertex(AddVertex(AddVertex(AddVertex(d4, v0, "scnum", -1),
                                  v1, "scnum", 1), v2, "scnum", -1), v3, "scnum", 1)
        e2 == AddVertex(AddVertex(AddVertex(AddVertex(e1, v0, "cnum", -2),
                                  v1, "cnum", 2), v2, "cnum", -2), v3, "cnum", 2)
        e3 == SetVertex(SetVertex(e2, v0, "tetra", tn013), v2, "tetra", tn123)
        e4 == CheckScnum(e3, v0, v2)
    IN IF reject1 THEN Return(a1, FALSE)
       ELSE IF reject2 THEN Return(a3, FALSE)
       ELSE Return(InOrder(<<c4, d4, e4>>), TRUE)

(***************************************************************************)
(* Universe::move23u and Universe::move32u (universe.cpp).                 *)
(***************************************************************************)
move23u(u, t31, t22) ==
    LET v0 == getVertexOppositeTetra(u, t31, t22)
        v1 == getVertexOppositeTetra(u, t22, t31)
        v0pos == BasePos(u, t31, v0)
        v2 == BaseAt(u, t31, v0pos, 1)
        v4 == BaseAt(u, t31, v0pos, 2)
        v3 == T(u, t31).vs[4]
        ta023 == getTetraOpposite(u, t31, v4)
        ta034 == getTetraOpposite(u, t31, v2)
        ta123 == getTetraOpposite(u, t22, v4)
        ta124 == getTetraOpposite(u, t22, v3)
        ta134 == getTetraOpposite(u, t22, v2)
        tn31 == NthFree(u.Tetra, 1)
        tn22l == NthFree(u.Tetra, 2)
        tn22r == NthFree(u.Tetra, 3)
        a1 == Check(AssertNbr(AssertNbr(u, t31, t22), t22, t31), v0pos > 0)
        a2 == AssertHas(AssertHas(AssertHas(AssertHas(AssertHas(a1,
                  t31, v4), t31, v2), t22, v4), t22, v3), t22, v2)
        reject == Ok(a2) /\ (\/ hasVertex(u, ta023, v1) \/ hasVertex(u, ta123, v0)
                             \/ hasVertex(u, ta034, v1) \/ hasVertex(u, ta134, v0)
                             \/ neighborsVertex(u, v0, v1))
        b1 == TetraCreate(TetraCreate(TetraCreate(a2)))
        b2 == add(add(add(add(b1, "tetrasAll", tn31), "tetras31", tn31),
                      "tetrasAll", tn22l), "tetrasAll", tn22r)
        c1 == setVertices(b2, tn31, v0, v2, v4, v1)
        c2 == setVertices(c1, tn22l, v0, v2, v1, v3)
        c3 == setVertices(c2, tn22r, v0, v4, v1, v3)
        \* t31->tnbr[3]; t31 is not among the records written above
        c4 == setTetras(c3, tn31, ta124, tn22r, tn22l, T(u, t31).tnbr[4])
        c5 == setTetras(c4, tn22l, ta123, tn22r, ta023, tn31)
        c6 == setTetras(c5, tn22r, ta134, tn22l, ta034, tn31)
        d1 == AddSizeAtTimeOf(c6, "slabSizes", tn31, 1, 1)
        e1 == exchangeVertical(d1, t31, 4, 1, tn31)
        e2 == exchangeOppositeVertex(e1, ta023, t31, v4, tn22l)
        e3 == exchangeOppositeVertex(e2, ta034, t31, v2, tn22r)
        e4 == exchangeOppositeVertex(e3, ta123, t22, v4, tn22l)
        e5 == exchangeOppositeVertex(e4, ta124, t22, v3, tn31)
        e6 == exchangeOppositeVertex(e5, ta134, t22, v2, tn22r)
        f1 == AddVertex(AddVertex(e6, v0, "cnum", 2), v1, "cnum", 2)
        f2 == remove(remove(remove(f1, "tetrasAll", t31), "tetras31", t31),
                     "tetrasAll", t22)
        f3 == TetraDestroy(TetraDestroy(f2, t31), t22)
        f4 == SetBaseTetra(f3, tn31)
    IN IF reject THEN Return(a2, FALSE)
       ELSE Return(InOrder(<<c6, e3, e6, f4>>), TRUE)

move32u(u, t31, t22l, t22r) ==
    LET v1 == T(u, t31).vs[4]
        v3 == getVertexOppositeTetra(u, t22l, t31)
        v4 == getVertexOppositeTetra(u, t31, t22l)
        v4pos == BasePos(u, t31, v4)
        v0 == BaseAt(u, t31, v4pos, 1)
        v2 == BaseAt(u, t31, v4pos, 2)
        ta023 == getTetraOpposite(u, t22l, v1)
        ta034 == getTetraOpposite(u, t22r, v1)
        ta123 == getTetraOpposite(u, t22l, v0)
        ta124 == getTetraOpposite(u, t31, v0)
        ta134 == getTetraOpposite(u, t22r, v0)
        tn31 == NthFree(u.Tetra, 1)
        tn22 == NthFree(u.Tetra, 2)
        a1 == Check(AssertNbr(AssertNbr(u, t22l, t31), t31, t22l), v4pos > 0)
        a2 == AssertHas(AssertHas(AssertHas(AssertHas(AssertHas(a1,
                  t22l, v1), t22r, v1), t22l, v0), t31, v0), t22r, v0)
        reject == Ok(a2) /\ (\/ hasVertex(u, ta023, v4) \/ hasVertex(u, ta123, v4)
                             \/ hasVertex(u, ta034, v2) \/ hasVertex(u, ta124, v3)
                             \/ hasVertex(u, ta134, v2))
        b1 == TetraCreate(TetraCreate(a2))
        b2 == add(add(add(b1, "tetrasAll", tn31), "tetras31", tn31), "tetrasAll", tn22)
        c1 == setVertices(b2, tn31, v0, v2, v4, v3)
        c2 == setVertices(c1, tn22, v2, v4, v1, v3)
        c3 == setTetras(c2, tn31, tn22, ta034, ta023, T(u, t31).tnbr[4])
        c4 == setTetras(c3, tn22, ta134, ta123, tn31, ta124)
        e1 == exchangeVertical(c4, t31, 4, 1, tn31)
        e2 == exchangeOppositeVertex(e1, ta023, t22l, v1, tn31)
        e3 == exchangeOppositeTetra(e2, ta034, t22r, v1, tn31)
        e4 == exchangeOppositeVertex(e3, ta123, t22l, v0, tn22)
        e5 == exchangeOppositeVertex(e4, ta124, t31, v0, tn22)
        e6 == exchangeOppositeTetra(e5, ta134, t22r, v0, tn22)
        f1 == AddVertex(AddVertex(e6, v0, "cnum", -2), v1, "cnum", -2)
        f2 == remove(remove(remove(remove(f1, "tetrasAll", t31), "tetras31", t31),
                            "tetrasAll", t22l), "tetrasAll", t22r)
        f3 == TetraDestroy(TetraDestroy(TetraDestroy(f2, t31), t22l), t22r)
        g1 == AddSizeAtTimeOf(f3, "slabSizes", tn31, 1, -1)
        g2 == SetBaseTetra(g1, tn31)
    IN IF reject THEN Return(a2, FALSE)
       ELSE Return(InOrder(<<c4, e3, e6, g2>>), TRUE)

(***************************************************************************)
(* Universe::move23d and Universe::move32d (universe.cpp).                 *)
(***************************************************************************)
move23d(u, t13, t22) ==
    LET v0 == getVertexOppositeTetra(u, t13, t22)
        v1 == getVertexOppositeTetra(u, t22, t13)
        t31 == T(u, t13).tnbr[1]
        v0pos == BasePos(u, t31, v0)
        v2 == BaseAt(u, t31, v0pos, 1)
        v4 == BaseAt(u, t31, v0pos, 2)
        v3 == T(u, t13).vs[1]
        ta023 == getTetraOpposite(u, t13, v4)
        ta034 == getTetraOpposite(u, t13, v2)
        ta123 == getTetraOpposite(u, t22, v4)
        ta124 == getTetraOpposite(u, t22, v3)
        ta134 == getTetraOpposite(u, t22, v2)
        tn13 == NthFree(u.Tetra, 1)
        tn22l == NthFree(u.Tetra, 2)
        tn22r == NthFree(u.Tetra, 3)
        a1 == Check(AssertNbr(AssertNbr(u, t13, t22), t22, t13), v0pos > 0)
        a2 == AssertHas(AssertHas(AssertHas(AssertHas(AssertHas(a1,
                  t13, v4), t13, v2), t22, v4), t22, v3), t22, v2)
        reject == Ok(a2) /\ (\/ hasVertex(u, ta023, v1) \/ hasVertex(u, ta123, v0)
                             \/ hasVertex(u, ta034, v1) \/ hasVertex(u, ta134, v0)
                             \/ neighborsVertex(u, v0, v1))
        b1 == TetraCreate(TetraCreate(TetraCreate(a2)))
        b2 == add(add(add(b1, "tetrasAll", tn13), "tetrasAll", tn22l), "tetrasAll", tn22r)
        c1 == setVertices(b2, tn13, v1, v0, v2, v4)
        c2 == setVertices(c1, tn22l, v1, v3, v0, v2)
        c3 == setVertices(c2, tn22r, v1, v3, v0, v4)
        c4 == setTetras(c3, tn13, T(u, t13).tnbr[1], ta124, tn22r, tn22l)
        c5 == setTetras(c4, tn22l, ta023, tn13, ta123, tn22r)
        c6 == setTetras(c5, tn22r, ta034, tn13, ta134, tn22l)
        d1 == AddSizeAtTimeOf(c6, "slabSizes", t31, 1, 1)
        e1 == exchangeVertical(d1, t13, 1, 4, tn13)
        e2 == exchangeOppositeVertex(e1, ta023, t13, v4, tn22l)
        e3 == exchangeOppositeVertex(e2, ta034, t13, v2, tn22r)
        e4 == exchangeOppositeVertex(e3, ta123, t22, v4, tn22l)
        e5 == exchangeOppositeTetra(e4, ta124, t22, v3, tn13)
        e6 == exchangeOppositeTetra(e5, ta134, t22, v2, tn22r)
        f1 == AddVertex(AddVertex(e6, v0, "cnum", 2), v1, "cnum", 2)
        f2 == remove(remove(f1, "tetrasAll", t13), "tetrasAll", t22)
        f3 == TetraDestroy(TetraDestroy(f2, t13), t22)
    IN IF reject THEN Return(a2, FALSE)
       ELSE Return(InOrder(<<c6, e3, e6, f3>>), TRUE)

move32d(u, t13, t22l, t22r) ==
    LET v1 == T(u, t13).vs[1]
        v3 == getVertexOppositeTetra(u, t22l, t13)
        v4 == getVertexOppositeTetra(u, t13, t22l)
        t31 == T(u, t13).tnbr[1]
        v4pos == BasePos(u, t31, v4)
        v0 == BaseAt(u, t31, v4pos, 1)
        v2 == BaseAt(u, t31, v4pos, 2)
        ta023 == getTetraOpposite(u, t22l, v1)
        ta034 == getTetraOpposite(u, t22r, v1)
        ta123 == getTetraOpposite(u, t22l, v0)
        ta124 == getTetraOpposite(u, t13, v0)
        ta134 == getTetraOpposite(u, t22r, v0)
        tn13 == NthFree(u.Tetra, 1)
        tn22 == NthFree(u.Tetra, 2)
        a1 == Check(AssertNbr(AssertNbr(u, t22l, t13), t13, t22l), v4pos > 0)
        a2 == AssertHas(AssertHas(AssertHas(AssertHas(AssertHas(a1,
                  t22l, v1), t22r, v1), t22l, v0), t13, v0), t22r, v0)
        reject == Ok(a2) /\ (\/ hasVertex(u, ta023, v4) \/ hasVertex(u, ta123, v4)
                             \/ hasVertex(u, ta034, v2) \/ hasVertex(u, ta124, v3)
                             \/ hasVertex(u, ta134, v2))
        b1 == TetraCreate(TetraCreate(a2))
        b2 == add(add(b1, "tetrasAll", tn13), "tetrasAll", tn22)
        c1 == setVertices(b2, tn13, v3, v0, v2, v4)
        c2 == setVertices(c1, tn22, v1, v3, v2, v4)
        c3 == setTetras(c2, tn13, T(u, t13).tnbr[1], tn22, ta034, ta023)
        c4 == setTetras(c3, tn22, tn13, ta124, ta134, ta123)
        e1 == exchangeVertical(c4, t13, 1, 4, tn13)
        e2 == exchangeOppositeTetra(e1, ta023, t22l, v1, tn13)
        e3 == exchangeOppositeTetra(e2, ta034, t22r, v1, tn13)
        e4 == exchangeOppositeTetra(e3, ta123, t22l, v0, tn22)
        e5 == exchangeOppositeTetra(e4, ta124, t13, v0, tn22)
        e6 == exchangeOppositeTetra(e5, ta134, t22r, v0, tn22)
        f1 == AddVertex(AddVertex(e6, v0, "cnum", -2), v1, "cnum", -2)
        f2 == remove(remove(remove(f1, "tetrasAll", t13), "tetrasAll", t22l),
                     "tetrasAll", t22r)
        f3 == TetraDestroy(TetraDestroy(TetraDestroy(f2, t13), t22l), t22r)
        g1 == AddSizeAtTimeOf(f3, "slabSizes", tn13, 4, -1)
    IN IF reject THEN Return(a2, FALSE)
       ELSE Return(InOrder(<<c4, e3, e6, g1>>), TRUE)

(***************************************************************************)
(* Simulation::moveAdd .. moveShiftID (simulation.cpp) for given outcomes  *)
(* of the random draws: t, v are the picked labels, n the drawn neighbour  *)
(* index.  The Metropolis draw that makes a function return false before   *)
(* it has picked anything changes no state and is left out.                *)
(***************************************************************************)
moveAddWith(u, t) == Return(move26(u, t), TRUE)

\* a variant without the test of cnum and scnum
moveDeleteUntested(u, v) == Return(move62(u, v), TRUE)

moveDeleteWith(u, v) ==
    IF V(u, v).cnum # 6 \/ V(u, v).scnum # 3 THEN Return(u, FALSE)
    ELSE Return(move62(u, v), TRUE)

moveFlipWith(u, t012, n) ==
    LET t230 == T(u, t012).tnbr[n + 1]
    IN IF ~is31(u, t230) THEN Return(u, FALSE)
       ELSE IF ~neighborsTetra(u, T(u, t012).tnbr[4], T(u, t230).tnbr[4])
       THEN Return(u, FALSE)
       ELSE move44(u, t012, t230)

moveShiftWith(u, t, n) ==
    LET tn == T(u, t).tnbr[n + 1]
    IN IF ~is22(u, tn) THEN Return(u, FALSE) ELSE move23u(u, t, tn)

moveShiftDWith(u, tv, n) ==
    LET t == T(u, tv).tnbr[4]
        tn == T(u, t).tnbr[n + 2]
    IN IF ~is22(u, tn) THEN Return(u, FALSE) ELSE move23d(u, t, tn)

\* the number of positions i with t22r->hasVertex(t22l->vs[i])
SharedVertices(u, t22l, t22r) ==
    Cardinality({i \in 1..4 : hasVertex(u, t22r, T(u, t22l).vs[i])})

moveShiftIWith(u, t, n) ==
    LET t22l == T(u, t).tnbr[n + 1]
        t22r == T(u, t).tnbr[((n + 2) % 3) + 1]
    IN IF ~is22(u, t22l) \/ ~is22(u, t22r) \/ ~neighborsTetra(u, t22l, t22r)
       THEN Return(u, FALSE)
       ELSE IF SharedVertices(u, t22l, t22r) # 3 THEN Return(u, FALSE)
       ELSE move32u(u, t, t22l, t22r)

moveShiftIDWith(u, tv, n) ==
    LET t == T(u, tv).tnbr[4]
        t22l == T(u, t).tnbr[n + 2]
        t22r == T(u, t).tnbr[((n + 2) % 3) + 2]
    IN IF ~is22(u, t22l) \/ ~is22(u, t22r) \/ ~neighborsTetra(u, t22l, t22r)
       THEN Return(u, FALSE)
       ELSE IF SharedVertices(u, t22l, t22r) # 3 THEN Return(u, FALSE)
       ELSE move32d(u, t, t22l, t22r)

(***************************************************************************)
(* Universe::updateGeometry (universe.cpp) with HalfEdge and Triangle      *)
(* (halfedge.hpp, triangle.hpp, tetra.hpp).  The record x is the Universe  *)
(* together with vertices, vertexNeighbors, the two pools, their vectors   *)
(* and the file last written.  HalfEdge declares a member next of its own, *)
(* which hides Pool::next in elements[i].next: the free list of            *)
(* Pool<HalfEdge> and the next half-edge of a triangle are one field.      *)
(***************************************************************************)
BlankHalfEdge ==
    [next |-> NoLabel, vs |-> <<NoLabel, NoLabel>>, adj |-> NoLabel,
     prev |-> NoLabel, tetra |-> NoLabel, triangle |-> NoLabel]

BlankTriangle ==
    [next |-> 0, time |-> 0,
     vs |-> <<NoLabel, NoLabel, NoLabel>>,
     hes |-> <<NoLabel, NoLabel, NoLabel>>,
     trnbr |-> <<NoLabel, NoLabel, NoLabel>>]

H(x, h) == x.HalfEdge.elements[h]

\* lines 500-521: the vertices of the tetrahedra that the search from
\* v->tetra reaches, without v (as a set: the order of nbr is left out)
Neighbours(x, v) ==
    UNION {Range(T(x, td).vs) : td \in Visited(x, v, {V(x, v).tetra}, {})}
        \ {v}

\* v->tetra is still the -1 of its declaration for a vertex that is in the
\* base of no (3,1) tetrahedron read so far: the search reads elements[-1]
\* and the run is taken to stop there
updateVertexData(x) ==
    IF ~x.ok THEN x
    ELSE IF \E v \in BagSet(x.verticesAll) : V(x, v).tetra = NoLabel
    THEN Fail([x EXCEPT !.ub = TRUE])
    ELSE [x EXCEPT
            !.vertices = BagSeq(x.verticesAll),
            !.vertexNeighbors =
                [v \in 0..MaxOf(BagSet(x.verticesAll)) |->
                    IF v \in BagSet(x.verticesAll) THEN Neighbours(x, v)
                    ELSE {}]]

\* destroy of labels[i], labels[i - 1], ..., labels[1]
RECURSIVE DestroyAll(_, _, _)
DestroyAll(p, labels, i) ==
    IF i = 0 THEN p ELSE DestroyAll(PoolDestroy(p, labels[i]), labels, i - 1)

\* T::create() of a pool with cap slots; its assert is that the slot is free
CanCreate(p, cap) == p.first < cap /\ p.elements[p.first].next < 0

\* lines 533-543 for one tetrahedron t of tetras31
CreateHalfEdges(x, t) ==
    IF ~x.ok THEN x
    ELSE LET p0 == x.HalfEdge
             p1 == PoolCreate(p0)
             p2 == PoolCreate(p1)
             p3 == PoolCreate(p2)
             these == <<p0.first, p1.first, p2.first>>
             vs == T(x, t).vs
             made(h, i) == [h EXCEPT !.vs = <<vs[i], vs[(i % 3) + 1]>>,
                                     !.tetra = t,
                                     !.next = these[(i % 3) + 1],
                                     !.prev = these[((i + 1) % 3) + 1]]
         IN IF ~CanCreate(p0, HalfEdgeCap) THEN Fail(x)
            ELSE IF ~CanCreate(p1, HalfEdgeCap) THEN Fail(x)
            ELSE IF ~CanCreate(p2, HalfEdgeCap) THEN Fail(x)
            ELSE [x EXCEPT
                    !.HalfEdge.total = p3.total,
                    !.HalfEdge.first = p3.first,
                    !.HalfEdge.elements =
                        [h \in DOMAIN @ |->
                            IF h = these[1] THEN made(@[h], 1)
                            ELSE IF h = these[2] THEN made(@[h], 2)
                            ELSE IF h = these[3] THEN made(@[h], 3)
                            ELSE @[h]],
                    !.halfEdges = @ \o these,
                    !.Tetra.elements[t].hes = these]

RECURSIVE CreateAllHalfEdges(_, _)
CreateAllHalfEdges(x, k) ==
    IF ~x.ok \/ k >= x.tetras31.size THEN x
    ELSE CreateAllHalfEdges(CreateHalfEdges(x, x.tetras31.elements[k]), k + 1)

\* the loop of lines 552-557: from tc through the (2,2) tetrahedra around
\* the edge; ok is false when an assert of getTetraOpposite fails or the
\* loop does not end
RECURSIVE Traverse(_, _, _, _)
Traverse(x, tc, v, fuel) ==
    IF ~is22(x, tc) THEN [tc |-> tc, ok |-> TRUE]
    ELSE IF fuel = 0 \/ ~hasVertex(x, tc, v) THEN [tc |-> tc, ok |-> FALSE]
    ELSE Traverse(x, getTetraOpposite(x, tc, v),
                  IF T(x, tc).vs[3] = v THEN T(x, tc).vs[4] ELSE T(x, tc).vs[3],
                  fuel - 1)

\* Tetra::getHalfEdgeTo: the slots of hes the loop looks at before it ends
Looked(x, tc, v) ==
    LET hes == T(x, tc).hes
        hit == {i \in 1..3 : hes[i] # NoLabel /\ H(x, hes[i]).vs[2] = v}
        wild == {i \in 1..3 : hes[i] = NoLabel}
        stop == IF hit \cup wild = {} THEN 3
                ELSE CHOOSE i \in hit \cup wild : \A j \in hit \cup wild : i <= j
    IN [hit |-> stop \in hit, wild |-> stop \in wild, label |-> hes[stop]]

\* its value: the half-edge found, label 0 (return false) when none is,
\* and what the run makes of it (x.g) when a slot of hes is -1
getHalfEdgeTo(x, tc, v) ==
    LET l == Looked(x, tc, v)
    IN IF l.wild THEN x.g ELSE IF l.hit THEN l.label ELSE 0

\* lines 547-561 for tetrahedron t of tetras31 and i in 0..2
LinkHalfEdge(x, t, i) ==
    IF ~x.ok THEN x
    ELSE LET vt == T(x, t).vs[4]
             r == Traverse(x, getTetraOpposite(x, t, T(x, t).vs[i + 1]), vt,
                           2 * TetraCap)
             to == T(x, t).vs[((i + 1) % 3) + 1]
             hthis == T(x, t).hes[((i + 1) % 3) + 1]
             hthat == getHalfEdgeTo(x, r.tc, to)
             x1 == IF Looked(x, r.tc, to).wild THEN [x EXCEPT !.ub = TRUE] ELSE x
         IN IF ~r.ok \/ ~is31(x, r.tc) THEN Fail(x)
            ELSE IF hthat \notin DOMAIN x.HalfEdge.elements THEN Fail(x1)
            ELSE [x1 EXCEPT !.HalfEdge.elements =
                     [[@ EXCEPT ![hthis].adj = hthat] EXCEPT ![hthat].adj = hthis]]

RECURSIVE LinkAllHalfEdges(_, _)
LinkAllHalfEdges(x, j) ==
    IF ~x.ok \/ j >= 3 * x.tetras31.size THEN x
    ELSE LinkAllHalfEdges(
             LinkHalfEdge(x, x.tetras31.elements[j \div 3], j % 3), j + 1)

updateHalfEdgeData(x) ==
    IF ~x.ok THEN x
    ELSE LET p == DestroyAll(x.HalfEdge, x.halfEdges, Len(x.halfEdges))
             x1 == Check([x EXCEPT !.HalfEdge = p, !.halfEdges = <<>>],
                         PoolSize(p) = 0)
         IN LinkAllHalfEdges(CreateAllHalfEdges(x1, 0), 0)

\* lines 569-575 for one tetrahedron t of tetras31
CreateTriangle(x, t) ==
    IF ~x.ok THEN x
    ELSE LET tr == x.Triangle.first
             vs == T(x, t).vs
             hes == T(x, t).hes
         IN IF ~CanCreate(x.Triangle, TriangleCap) THEN Fail(x)
            ELSE IF \E i \in 1..3 : hes[i] = NoLabel THEN Fail([x EXCEPT !.ub = TRUE])
            ELSE Check(
                [x EXCEPT
                    !.Triangle = [PoolCreate(@) EXCEPT
                        !.elements[tr].vs = <<vs[1], vs[2], vs[3]>>,
                        !.elements[tr].time = V(x, vs[1]).time,
                        !.elements[tr].hes = hes],
                    !.HalfEdge.elements =
                        [h \in DOMAIN @ |->
                            IF h \in Range(hes) THEN [@[h] EXCEPT !.triangle = tr]
                            ELSE @[h]],
                    !.triangles = Append(@, tr)],
                /\ V(x, vs[1]).time = V(x, vs[2]).time
                /\ V(x, vs[1]).time = V(x, vs[3]).time)

RECURSIVE CreateAllTriangles(_, _)
CreateAllTriangles(x, k) ==
    IF ~x.ok \/ k >= x.tetras31.size THEN x
    ELSE CreateAllTriangles(CreateTriangle(x, x.tetras31.elements[k]), k + 1)

\* tr->hes[i]->getAdjacent()->triangle; adj = -1 reads before the pool
\* (x.g stands for what is found there)
AdjacentTriangle(x, h) ==
    IF H(x, h).adj = NoLabel THEN x.g ELSE H(x, H(x, h).adj).triangle

\* lines 579-582; triangleNeighbors[tr] is a copy of tr->trnbr
LinkTriangles(x) ==
    IF ~x.ok THEN x
    ELSE LET wild == \E tr \in Range(x.triangles) : \E i \in 1..3 :
                         H(x, x.Triangle.elements[tr].hes[i]).adj = NoLabel
             x1 == IF wild THEN [x EXCEPT !.ub = TRUE] ELSE x
         IN [x1 EXCEPT !.Triangle.elements =
                [tr \in DOMAIN @ |->
                    IF tr \in Range(x.triangles)
                    THEN [@[tr] EXCEPT !.trnbr =
                             [i \in 1..3 |-> AdjacentTriangle(x, x.Triangle.elements[tr].hes[i])]]
                    ELSE @[tr]]]

updateTriangleData(x) ==
    IF ~x.ok THEN x
    ELSE LET p == DestroyAll(x.Triangle, x.triangles, Len(x.triangles))
         IN LinkTriangles(
                CreateAllTriangles([x EXCEPT !.Triangle = p, !.triangles = <<>>], 0))

updateGeometry(x) == updateTriangleData(updateHalfEdgeData(updateVertexData(x)))

(***************************************************************************)
(* Universe::exportGeometry (universe.cpp): the file it writes; a label    *)
(* that is not a key of vertexMap or tetraMap is written as 0.             *)
(***************************************************************************)
\* the index written for the 1-based position
FileIndexOneBased(intMap, l) == IF l \in Range(intMap) THEN IndexOf(intMap, l) ELSE 0

\* vertexMap[l], tetraMap[l]: the index i of intMap[i] = l, counted from 0
FileIndex(intMap, l) == IF l \in Range(intMap) THEN IndexOf(intMap, l) - 1 ELSE 0

exportGeometry(x) ==
    LET y == updateGeometry(x)
        intVMap == y.vertices
        intTMap == BagSeq(y.tetrasAll)
        vertexMap(v) == FileIndex(intVMap, v)
        tetraMap(t) == FileIndex(intTMap, t)
    IN IF ~y.ok THEN y
       ELSE Return([y EXCEPT !.outFile =
                [ordered |-> TRUE,
                 n0 |-> Len(y.vertices),
                 times |-> [i \in 1..Len(intVMap) |-> V(y, intVMap[i]).time],
                 n0check |-> Len(y.vertices),
                 n3 |-> y.tetrasAll.size,
                 tetras |-> [i \in 1..Len(intTMap) |->
                     << [j \in 1..4 |-> vertexMap(T(y, intTMap[i]).vs[j])],
                        [j \in 1..4 |-> tetraMap(T(y, intTMap[i]).tnbr[j])] >>],
                 n3check |-> y.tetrasAll.size]], TRUE)

(***************************************************************************)
(* The input geometry: the boundary of a tetrahedron in each of two        *)
(* slices, every prism between the slices cut into a (3,1), a (2,2) and a  *)
(* (1,3) tetrahedron; 8 vertices, 24 tetrahedra, ordered convention.       *)
(***************************************************************************)
GeometryFile ==
    [ordered |-> TRUE,
     n0 |-> 8,
     times |-> <<0, 0, 0, 0, 1, 1, 1, 1>>,
     n0check |-> 8,
     n3 |-> 24,
     tetras |-> <<
        << <<0, 1, 2, 4>>, <<1, 6, 3, 14>> >>,
        << <<1, 2, 4, 5>>, <<2, 4, 9, 0>> >>,
        << <<2, 4, 5, 6>>, <<12, 10, 7, 1>> >>,
        << <<0, 3, 1, 4>>, <<4, 0, 6, 17>> >>,
        << <<1, 3, 4, 5>>, <<5, 1, 9, 3>> >>,
        << <<3, 4, 7, 5>>, <<15, 11, 4, 8>> >>,
        << <<0, 2, 3, 4>>, <<7, 3, 0, 20>> >>,
        << <<2, 3, 4, 6>>, <<8, 2, 10, 6>> >>,
        << <<3, 4, 6, 7>>, <<18, 11, 5, 7>> >>,
        << <<1, 3, 2, 5>>, <<10, 1, 4, 23>> >>,
        << <<2, 3, 5, 6>>, <<11, 2, 7, 9>> >>,
        << <<3, 5, 7, 6>>, <<21, 8, 10, 5>> >>,
        << <<4, 5, 6, 0>>, <<13, 18, 15, 2>> >>,
        << <<5, 6, 0, 1>>, <<14, 16, 21, 12>> >>,
        << <<6, 0, 1, 2>>, <<0, 22, 19, 13>> >>,
        << <<4, 7, 5, 0>>, <<16, 12, 18, 5>> >>,
        << <<5, 7, 0, 1>>, <<17, 13, 21, 15>> >>,
        << <<7, 0, 3, 1>>, <<3, 23, 16, 20>> >>,
        << <<4, 6, 7, 0>>, <<19, 15, 12, 8>> >>,
        << <<6, 7, 0, 2>>, <<20, 14, 22, 18>> >>,
        << <<7, 0, 2, 3>>, <<6, 23, 17, 19>> >>,
        << <<5, 7, 6, 1>>, <<22, 13, 16, 11>> >>,
        << <<6, 7, 1, 2>>, <<23, 14, 19, 21>> >>,
        << <<7, 1, 3, 2>>, <<9, 20, 22, 17>> >>
     >>,
     n3check |-> 24]

(***************************************************************************)
(* A second input geometry: the one Universe::exportGeometry writes after  *)
(* two (2,6)-moves in slice 0 of the geometry above; 10 vertices, 32       *)
(* tetrahedra, ordered convention.                                         *)
(***************************************************************************)
GeometryFileGrown ==
    [ordered |-> TRUE,
     n0 |-> 10,
     times |-> <<0, 0, 0, 0, 1, 1, 1, 1, 0, 0>>,
     n0check |-> 10,
     n3 |-> 32,
     tetras |-> <<
        << <<6, 2, 0, 8>>, <<26, 27, 14, 19>> >>,
        << <<1, 2, 4, 5>>, <<2, 4, 9, 28>> >>,
        << <<2, 4, 5, 6>>, <<12, 10, 7, 1>> >>,
        << <<0, 3, 1, 4>>, <<4, 24, 6, 17>> >>,
        << <<1, 3, 4, 5>>, <<5, 1, 9, 3>> >>,
        << <<3, 4, 7, 5>>, <<15, 11, 4, 8>> >>,
        << <<0, 2, 3, 4>>, <<7, 3, 26, 20>> >>,
        << <<2, 3, 4, 6>>, <<8, 2, 10, 6>> >>,
        << <<3, 4, 6, 7>>, <<18, 11, 5, 7>> >>,
        << <<1, 3, 2, 5>>, <<10, 1, 4, 23>> >>,
        << <<2, 3, 5, 6>>, <<11, 2, 7, 9>> >>,
        << <<3, 5, 7, 6>>, <<21, 8, 10, 5>> >>,
        << <<4, 5, 6, 0>>, <<13, 18, 15, 2>> >>,
        << <<5, 6, 0, 1>>, <<27, 16, 21, 12>> >>,
        << <<6, 2, 8, 9>>, <<29, 25, 31, 0>> >>,
        << <<4, 7, 5, 0>>, <<16, 12, 18, 5>> >>,
        << <<5, 7, 0, 1>>, <<17, 13, 21, 15>> >>,
        << <<7, 0, 3, 1>>, <<3, 23, 16, 20>> >>,
        << <<4, 6, 7, 0>>, <<19, 15, 12, 8>> >>,
        << <<6, 7, 0, 2>>, <<20, 0, 22, 18>> >>,
        << <<7, 0, 2, 3>>, <<6, 23, 17, 19>> >>,
        << <<5, 7, 6, 1>>, <<22, 13, 16, 11>> >>,
        << <<6, 7, 1, 2>>, <<23, 31, 19, 21>> >>,
        << <<7, 1, 3, 2>>, <<9, 20, 22, 17>> >>,
        << <<0, 1, 8, 4>>, <<30, 26, 3, 27>> >>,
        << <<6, 8, 1, 9>>, <<30, 31, 14, 27>> >>,
        << <<2, 0, 8, 4>>, <<24, 29, 6, 0>> >>,
        << <<6, 0, 1, 8>>, <<24, 25, 0, 13>> >>,
        << <<1, 2, 9, 4>>, <<29, 30, 1, 31>> >>,
        << <<2, 8, 9, 4>>, <<30, 28, 26, 14>> >>,
        << <<8, 1, 9, 4>>, <<28, 29, 24, 25>> >>,
        << <<6, 1, 2, 9>>, <<28, 14, 25, 22>> >>
     >>,
     n3check |-> 32]

(***************************************************************************)
(* A third input geometry, the smallest one: two slices of two triangles   *)
(* each, the two triangles of a slice having the same three vertices; 6    *)
(* vertices, 12 tetrahedra (a (3,1), a (2,2) and a (1,3) over each         *)
(* triangle), ordered convention.                                          *)
(***************************************************************************)
GeometryFileThin ==
    [ordered |-> TRUE,
     n0 |-> 6,
     times |-> <<0, 0, 0, 1, 1, 1>>,
     n0check |-> 6,
     n3 |-> 12,
     tetras |-> <<
        << <<0, 1, 2, 3>>, <<1, 3, 3, 8>> >>,
        << <<1, 2, 3, 4>>, <<2, 4, 4, 0>> >>,
        << <<2, 3, 4, 5>>, <<6, 5, 5, 1>> >>,
        << <<0, 2, 1, 3>>, <<4, 0, 0, 11>> >>,
        << <<1, 2, 3, 4>>, <<5, 1, 1, 3>> >>,
        << <<2, 3, 5, 4>>, <<9, 2, 4, 2>> >>,
        << <<3, 4, 5, 0>>, <<7, 9, 9, 2>> >>,
        << <<4, 5, 0, 1>>, <<8, 10, 10, 6>> >>,
        << <<5, 0, 1, 2>>, <<0, 11, 11, 7>> >>,
        << <<3, 5, 4, 0>>, <<10, 6, 6, 5>> >>,
        << <<4, 5, 0, 1>>, <<11, 7, 7, 9>> >>,
        << <<5, 0, 2, 1>>, <<3, 8, 10, 8>> >>
     >>,
     n3check |-> 12]

(***************************************************************************)
(* The state machine.                                                      *)
(***************************************************************************)
\* the Universe of the current state; g is what an uninitialised int reads
\* as.  An action runs its function for every g and keeps the run with
\* g = NoLabel and every run that has read an uninitialised int.
Universe(g) ==
    [Vertex |-> Vertex, Tetra |-> Tetra, tetrasAll |-> tetrasAll,
     tetras31 |-> tetras31, verticesAll |-> verticesAll,
     slabSizes |-> slabSizes, sliceSizes |-> sliceSizes,
     nSlices |-> nSlices, strictness |-> strictness,
     ok |-> TRUE, ret |-> FALSE, ub |-> FALSE, g |-> g]

Garbage == {NoLabel} \cup (0..(VertexCap - 1))

\* the Universe with the data of updateGeometry and the file last written
Geometry(g) ==
    Universe(g) @@
    [vertices |-> vertices, vertexNeighbors |-> vertexNeighbors,
     HalfEdge |-> HalfEdge, halfEdges |-> halfEdges,
     Triangle |-> Triangle, triangles |-> triangles, outFile |-> outFile]

geometry == <<vertices, vertexNeighbors, HalfEdge, halfEdges,
              Triangle, triangles, outFile>>

\* the arguments of Simulation::start and the settings of main (config),
\* the statics of Simulation, the three random engines, and where the
\* program is: pc is the place in Simulation::start, iteration its loop
\* counter i, attemptsLeft what is left of the loop of performSweep, log what
\* has happened so far
simulation == <<config, targetVolume, target2Volume, k3, rng, pc, iteration,
               attemptsLeft, log>>

Stop(name) ==
    /\ aborted' = TRUE
    /\ lastMove' = name
    /\ UNCHANGED <<Vertex, Tetra, tetrasAll, tetras31, verticesAll,
                   slabSizes, sliceSizes, nSlices, strictness, movesLeft>>
    /\ UNCHANGED <<geometry, caller, simulation>>

\* the state after a move function has run to its end with result r, or
\* the stop of the program when an assert of it has failed
Commit(name, r) ==
    IF ~r.ok THEN Stop(name)
    ELSE /\ Vertex' = r.Vertex
         /\ Tetra' = r.Tetra
         /\ tetrasAll' = r.tetrasAll
         /\ tetras31' = r.tetras31
         /\ verticesAll' = r.verticesAll
         /\ slabSizes' = r.slabSizes
         /\ sliceSizes' = r.sliceSizes
         /\ nSlices' = r.nSlices
         /\ strictness' = r.strictness
         /\ movesLeft' = IF r.ret THEN movesLeft - 1 ELSE movesLeft
         /\ lastMove' = IF r.ret THEN name ELSE lastMove
         /\ UNCHANGED aborted
         /\ UNCHANGED <<geometry, caller, simulation>>

\* the state after updateGeometry or exportGeometry has run to its end
CommitGeometry(name, r) ==
    IF ~r.ok THEN Stop(name)
    ELSE /\ Tetra' = r.Tetra
         /\ vertices' = r.vertices
         /\ vertexNeighbors' = r.vertexNeighbors
         /\ HalfEdge' = r.HalfEdge
         /\ halfEdges' = r.halfEdges
         /\ Triangle' = r.Triangle
         /\ triangles' = r.triangles
         /\ outFile' = r.outFile
         /\ lastMove' = name
         /\ UNCHANGED <<Vertex, tetrasAll, tetras31, verticesAll, slabSizes,
                        sliceSizes, nSlices, strictness, aborted, movesLeft>>
         /\ UNCHANGED <<caller, simulation>>

Running == ~aborted /\ movesLeft > 0

\* what the caller of Pool<Vertex> and of verticesAll keeps track of in a run
\* of direct calls: the labels created and not destroyed, the labels added
\* and not removed, the label last returned, and whether Pool<Vertex> was
\* called with a label that was not live
NoCalls == [alive |-> {}, members |-> {}, returned |-> NoLabel, misused |-> FALSE]

\* no file has been written yet
NoFile ==
    [ordered |-> TRUE, n0 |-> 0, times |-> <<>>, n0check |-> 0,
     n3 |-> 0, tetras |-> <<>>, n3check |-> 0]

\* the pools of the model have room for the half-edges and triangles
Measurable == 3 * tetras31.size <= HalfEdgeCap /\ tetras31.size <= TriangleCap

FreeTetras == TetraCap - Tetra.total
FreeVertices == VertexCap - Vertex.total

\* main(): Universe::initialize on the geometry file, then Simulation::start
\* with a budget of move attempts that succeed
InitAs(u, budget) ==
    /\ Vertex = u.Vertex
    /\ Tetra = u.Tetra
    /\ tetrasAll = u.tetrasAll
    /\ tetras31 = u.tetras31
    /\ verticesAll = u.verticesAll
    /\ slabSizes = u.slabSizes
    /\ sliceSizes = u.sliceSizes
    /\ nSlices = u.nSlices
    /\ strictness = u.strictness
    /\ vertices = <<>>
    /\ vertexNeighbors = <<>>
    /\ HalfEdge = PoolInit(HalfEdgeCap, BlankHalfEdge)
    /\ halfEdges = <<>>
    /\ Triangle = PoolInit(TriangleCap, BlankTriangle)
    /\ triangles = <<>>
    /\ outFile = NoFile
    /\ caller = NoCalls
    /\ aborted = ~u.ok
    /\ movesLeft = budget
    /\ lastMove = "initialize"

\* no draw, no call of updateGeometry, no iteration and no call of tune
\* yet, and initialize has not returned false; no attemptMove has drawn
\* anything, and the vectors of performSweep as it declares them;
\* Observable::doneL is empty (observable.cpp:12, a function on 0..size-1
\* here) and sphere has not been called
NoLog ==
    [drawn |-> {}, fresh |-> FALSE, thermal |-> 0, sweeps |-> 0,
     tuned |-> [fixvolume |-> 0, before |-> 0], rejected |-> FALSE,
     tried |-> "none", order |-> <<>>, calls |-> 0, moves |-> [f \in 0..5 |-> 0],
     failed_moves |-> [f \in 0..5 |-> 0], succeeded |-> [f \in 0..5 |-> 0],
     returned |-> <<>>, printed |-> <<>>,
     doneL |-> <<>>, sphere |-> [origin |-> -1, radius |-> 0, list |-> <<>>]]

\* the three engines as their constructors leave them: rng(0)
Engines ==
    [e \in {"Simulation::rng", "Universe::rng", "Observable::rng"} |->
        [seed |-> 0, seedings |-> 0]]

\* main() before it calls Simulation::start with the arguments c
Configured(c) ==
    /\ config = c
    /\ targetVolume = 0
    /\ target2Volume = 0
    /\ k3 = 0
    /\ rng = Engines
    /\ pc = "main"
    /\ iteration = 0
    /\ attemptsLeft = 0
    /\ log = NoLog

\* the arguments of a run in which Simulation::start is not looked at
NoConfig ==
    [k3_ |-> 0, sweeps |-> 0, thermalSweeps |-> 0, ksteps |-> 0,
     targetVolume_ |-> 0, target2Volume_ |-> 0, seed |-> 0,
     moveFreqs |-> <<1, 1, 1>>, volfix_switch |-> 0,
     observables3d |-> 0, observables2d |-> 0]

InitFrom(file, budget) ==
    \E s \in StrictnessLevels :
        \E u \in {initialize(file, s)} : InitAs(u, budget) /\ Configured(NoConfig)

Init == InitFrom(GeometryFile, MaxMoves)

InitGrown == InitFrom(GeometryFileGrown, MaxFlips)

InitGrownMoves == InitFrom(GeometryFileGrown, MaxMoves)

InitMeasure == InitFrom(GeometryFile, MaxMeasured)

moveAdd ==
    /\ Running /\ FreeVertices >= 1 /\ FreeTetras >= 6
    /\ IF tetras31.size = 0 THEN Stop("moveAdd")
       ELSE \E i \in 0..(tetras31.size - 1), g \in Garbage :
               \E r \in {moveAddWith(Universe(g), tetras31.elements[i])} :
                  (r.ub \/ g = NoLabel) /\ Commit("moveAdd", r)

moveDelete ==
    /\ Running /\ FreeTetras >= 2
    /\ IF verticesAll.size = 0 THEN Stop("moveDelete")
       ELSE \E i \in 0..(verticesAll.size - 1), g \in Garbage :
               \E r \in {moveDeleteWith(Universe(g), verticesAll.elements[i])} :
                  (r.ub \/ g = NoLabel) /\ Commit("moveDelete", r)

moveFlip ==
    /\ Running
    /\ IF tetras31.size = 0 THEN Stop("moveFlip")
       ELSE \E i \in 0..(tetras31.size - 1), n \in 0..2, g \in Garbage :
               \E r \in {moveFlipWith(Universe(g), tetras31.elements[i], n)} :
                  (r.ub \/ g = NoLabel) /\ Commit("moveFlip", r)

moveShift ==
    /\ Running /\ FreeTetras >= 3
    /\ IF tetras31.size = 0 THEN Stop("moveShift")
       ELSE \E i \in 0..(tetras31.size - 1), n \in 0..2, g \in Garbage :
               \E r \in {moveShiftWith(Universe(g), tetras31.elements[i], n)} :
                  (r.ub \/ g = NoLabel) /\ Commit("moveShift", r)

moveShiftD ==
    /\ Running /\ FreeTetras >= 3
    /\ IF tetras31.size = 0 THEN Stop("moveShiftD")
       ELSE \E i \in 0..(tetras31.size - 1), n \in 0..2, g \in Garbage :
               \E r \in {moveShiftDWith(Universe(g), tetras31.elements[i], n)} :
                  (r.ub \/ g = NoLabel) /\ Commit("moveShiftD", r)

moveShiftI ==
    /\ Running /\ FreeTetras >= 2
    /\ IF tetras31.size = 0 THEN Stop("moveShiftI")
       ELSE \E i \in 0..(tetras31.size - 1), n \in 0..2, g \in Garbage :
               \E r \in {moveShiftIWith(Universe(g), tetras31.elements[i], n)} :
                  (r.ub \/ g = NoLabel) /\ Commit("moveShiftI", r)

moveShiftID ==
    /\ Running /\ FreeTetras >= 2
    /\ IF tetras31.size = 0 THEN Stop("moveShiftID")
       ELSE \E i \in 0..(tetras31.size - 1), n \in 0..2, g \in Garbage :
               \E r \in {moveShiftIDWith(Universe(g), tetras31.elements[i], n)} :
                  (r.ub \/ g = NoLabel) /\ Commit("moveShiftID", r)

Next ==
    \/ moveAdd
    \/ moveDelete
    \/ moveFlip
    \/ moveShift
    \/ moveShiftD
    \/ moveShiftI
    \/ moveShiftID

Spec == Init /\ [][Next]_vars

\* Simulation::attemptMove with moveFreqs = {0, v2, 0}: every attempt is a
\* flip move
NextFlip == moveFlip

\* the calls in the current state, g standing for what a read outside the
\* pool finds
Prepared(g) == updateGeometry(Geometry(g))

Exported(g) == exportGeometry(Geometry(g))

\* Simulation::prepare, called between the sweeps
prepare ==
    /\ ~aborted /\ Measurable
    /\ \E g \in IF Prepared(NoLabel).ub THEN Garbage ELSE {NoLabel} :
          CommitGeometry("prepare", Prepared(g))

\* Universe::exportGeometry(OutFile), called between the sweeps
export ==
    /\ ~aborted /\ Measurable
    /\ \E g \in IF Exported(NoLabel).ub THEN Garbage ELSE {NoLabel} :
          CommitGeometry("export", Exported(g))

\* a run of sweeps with the geometry updated and exported in between
NextMeasure == Next \/ prepare \/ export

SpecMeasure == InitMeasure /\ [][NextMeasure]_vars

SpecFlip == InitGrown /\ [][NextFlip]_vars

\* the run of Spec on the second geometry
SpecGrown == InitGrownMoves /\ [][Next]_vars

\* the run of Spec on the third geometry, in which no slice can lose a
\* triangle
InitThin == InitFrom(GeometryFileThin, MaxMoves)

SpecThin == InitThin /\ [][Next]_vars

(***************************************************************************)
(* Pool<Vertex> and the Bag verticesAll called directly, from the state    *)
(* the static constructors leave, with the labels 0..MaxLabels-1.          *)
(***************************************************************************)
Labels == 0..(MaxLabels - 1)

InitCalls == \E u \in {BlankUniverse(0)} : InitAs(u, 0) /\ Configured(NoConfig)

\* the state after a call of Pool<Vertex> or of verticesAll has returned
\* with result r, c what the caller knows then
CommitCall(name, r, c) ==
    IF ~r.ok THEN Stop(name)
    ELSE /\ Vertex' = r.Vertex
         /\ verticesAll' = r.verticesAll
         /\ caller' = c
         /\ lastMove' = name
         /\ UNCHANGED <<Tetra, tetrasAll, tetras31, slabSizes, sliceSizes,
                        nSlices, strictness, aborted, movesLeft>>
         /\ UNCHANGED <<geometry, simulation>>

\* Vertex::create()
create ==
    /\ ~aborted /\ Vertex.first < MaxLabels
    /\ CommitCall("create", VertexCreate(Universe(NoLabel)),
                  [caller EXCEPT !.alive = @ \cup {Vertex.first},
                                 !.returned = Vertex.first])

\* Vertex::destroy(l); nothing in it looks at l, and total can fall
\* below 0
destroy ==
    /\ ~aborted /\ Vertex.total > -MaxLabels
    /\ \E l \in Labels :
          CommitCall("destroy", VertexDestroy(Universe(NoLabel), l),
                     [caller EXCEPT !.alive = @ \ {l},
                                    !.misused = @ \/ l \notin caller.alive])

\* Vertex::at(l), the access behind l-> and *l; it returns elements[l]
at ==
    /\ ~aborted
    /\ \E l \in Labels :
          CommitCall("at", Universe(NoLabel),
                     [caller EXCEPT !.returned = Vertex.elements[l].next,
                                    !.misused = @ \/ l \notin caller.alive])

\* verticesAll.add(l)
bagAdd ==
    /\ ~aborted
    /\ \E l \in Labels :
          CommitCall("add", add(Universe(NoLabel), "verticesAll", l),
                     [caller EXCEPT !.members = @ \cup {l}])

\* verticesAll.remove(l)
bagRemove ==
    /\ ~aborted
    /\ \E l \in Labels :
          CommitCall("remove", remove(Universe(NoLabel), "verticesAll", l),
                     [caller EXCEPT !.members = @ \ {l}])

\* the assert of Bag::pick
pickUnchecked(u, bag) == u

pick(u, bag) == IF ~u.ok THEN u ELSE Check(u, u[bag].size > 0)

\* what elements[uniform(rng)] can be: uniform draws from 0..size-1, and
\* from an empty range the draw is undefined
Picked(b) ==
    IF b.size > 0 THEN {b.elements[i] : i \in 0..(b.size - 1)}
    ELSE {b.elements[i] : i \in DOMAIN b.elements}

\* verticesAll.pick()
bagPick ==
    /\ ~aborted
    /\ \E l \in Picked(verticesAll) :
          CommitCall("pick", pick(Universe(NoLabel), "verticesAll"),
                     [caller EXCEPT !.returned = l])

\* a run of calls of Pool<Vertex>
NextPool == create \/ destroy \/ at

SpecPool == InitCalls /\ [][NextPool]_vars

\* a run of calls of verticesAll
NextBag == bagAdd \/ bagRemove \/ bagPick

SpecBag == InitCalls /\ [][NextBag]_vars

(***************************************************************************)
(* Simulation::tune (simulation.cpp).  k3 is counted in units of delta_k3  *)
(* = 0.000001; the conversion of targetVolume * 0.5, * 0.05, * 0.002 and   *)
(* * 0.0001 to int cuts the fraction off.                                  *)
(***************************************************************************)
Trunc(a, b) == IF a >= 0 THEN a \div b ELSE -((-a) \div b)

\* tune with the step of the band between 0.2% and 5% taken as 1000
tuneCoarse(k3_, targetVolume_, fixvolume) ==
    LET border_close == Trunc(targetVolume_ * 5, 100)
        border_vvclose == Trunc(targetVolume_, 10000)
        diff == targetVolume_ - fixvolume
    IN IF diff > border_close THEN k3_ - 1000
       ELSE IF diff < -border_close THEN k3_ + 1000
       ELSE IF diff > border_vvclose THEN k3_ - 1000
       ELSE IF diff < -border_vvclose THEN k3_ + 1000
       ELSE k3_

tune(k3_, targetVolume_, fixvolume) ==
    LET border_far == Trunc(targetVolume_ * 5, 10)
        border_close == Trunc(targetVolume_ * 5, 100)
        border_vclose == Trunc(targetVolume_ * 2, 1000)
        border_vvclose == Trunc(targetVolume_, 10000)
        diff == targetVolume_ - fixvolume
    IN IF diff > border_far THEN k3_ - 1000
       ELSE IF diff < -border_far THEN k3_ + 1000
       ELSE IF diff > border_close THEN k3_ - 1000
       ELSE IF diff < -border_close THEN k3_ + 1000
       ELSE IF diff > border_vclose THEN k3_ - 100
       ELSE IF diff < -border_vclose THEN k3_ + 100
       ELSE IF diff > border_vvclose THEN k3_ - 20
       ELSE IF diff < -border_vvclose THEN k3_ + 20
       ELSE k3_

(***************************************************************************)
(* Simulation::start (simulation.cpp) as a walk over its places: the head  *)
(* of each loop, performSweep, tune, the periodic export, the two loops    *)
(* that fix a volume, prepare and the measurements.                        *)
(***************************************************************************)
\* the variables of the simulation as one record
Simulation ==
    [config |-> config, targetVolume |-> targetVolume,
     target2Volume |-> target2Volume, k3 |-> k3, rng |-> rng, pc |-> pc,
     iteration |-> iteration, attemptsLeft |-> attemptsLeft, log |-> log]

\* the state after a statement of start has run with result r and left the
\* simulation as s; moved says that a move has changed the triangulation
StepRun(name, r, s, moved) ==
    IF ~r.ok THEN Stop(name)
    ELSE /\ Vertex' = r.Vertex
         /\ Tetra' = r.Tetra
         /\ tetrasAll' = r.tetrasAll
         /\ tetras31' = r.tetras31
         /\ verticesAll' = r.verticesAll
         /\ slabSizes' = r.slabSizes
         /\ sliceSizes' = r.sliceSizes
         /\ nSlices' = r.nSlices
         /\ strictness' = r.strictness
         /\ vertices' = r.vertices
         /\ vertexNeighbors' = r.vertexNeighbors
         /\ HalfEdge' = r.HalfEdge
         /\ halfEdges' = r.halfEdges
         /\ Triangle' = r.Triangle
         /\ triangles' = r.triangles
         /\ outFile' = r.outFile
         /\ config' = s.config
         /\ targetVolume' = s.targetVolume
         /\ target2Volume' = s.target2Volume
         /\ k3' = s.k3
         /\ rng' = s.rng
         /\ pc' = s.pc
         /\ iteration' = s.iteration
         /\ attemptsLeft' = s.attemptsLeft
         /\ log' = s.log
         /\ movesLeft' = IF moved THEN movesLeft - 1 ELSE movesLeft
         /\ lastMove' = name
         /\ UNCHANGED <<caller, aborted>>

\* the places with prepare() of line 93 left out
FollowingUnprepared ==
    [thermalSweep |-> "tune", tune |-> "thermalExport",
     thermalExport |-> "thermalPrepare", thermalPrepare |-> "thermalMeasure",
     thermalMeasure |-> "thermalEnd", thermalEnd |-> "thermal",
     sweep |-> "sweepExport", fix3d |-> "measure3d", prepare3d |-> "measure3d",
     fix2d |-> "prepare2d", prepare2d |-> "measure2d",
     measure2d |-> "sweepEnd", sweepEnd |-> "sweeps"]

\* the place that follows a place when nothing is to be decided there
Following ==
    [thermalSweep |-> "tune", tune |-> "thermalExport",
     thermalExport |-> "thermalPrepare", thermalPrepare |-> "thermalMeasure",
     thermalMeasure |-> "thermalEnd", thermalEnd |-> "thermal",
     sweep |-> "sweepExport", fix3d |-> "prepare3d", prepare3d |-> "measure3d",
     fix2d |-> "prepare2d", prepare2d |-> "measure2d",
     measure2d |-> "sweepEnd", sweepEnd |-> "sweeps"]

\* line 99: the 2-d observables, reached after the 3-d ones
Entry2d(s) == IF s.target2Volume > 0 THEN "fix2d" ELSE "sweepEnd"

\* lines 83-85: the 3-d observables, reached after the periodic export
Entry3d(s) ==
    IF s.config.observables3d > 0
    THEN IF s.targetVolume > 0 THEN "fix3d" ELSE "prepare3d"
    ELSE Entry2d(s)

\* the place after the statement at s.pc
After_(s) ==
    CASE s.pc = "sweepExport" -> Entry3d(s)
      [] s.pc = "measure3d" -> Entry2d(s)
      [] OTHER -> Following[s.pc]

Goto(s, place) == [s EXCEPT !.pc = place]

\* lines 20-35: the statics are set and Simulation::rng is seeded
Start ==
    /\ ~aborted /\ pc = "main"
    /\ StepRun("start", Geometry(NoLabel),
               [Simulation EXCEPT
                   !.targetVolume = config.targetVolume_,
                   !.target2Volume = config.target2Volume_,
                   !.k3 = config.k3_,
                   !.rng["Simulation::rng"] =
                       [seed |-> config.seed, seedings |-> @.seedings + 1],
                   !.pc = "thermal",
                   !.iteration = 1], FALSE)

\* the heads and the ends of the loops of lines 41 and 70
LoopHead ==
    /\ ~aborted /\ pc \in {"thermal", "thermalEnd", "sweeps", "sweepEnd"}
    /\ StepRun(lastMove, Geometry(NoLabel),
               CASE pc = "thermal" ->
                      IF iteration <= config.thermalSweeps
                      THEN [Simulation EXCEPT !.pc = "thermalSweep",
                               !.attemptsLeft = config.ksteps * SweepUnit]
                      ELSE [Simulation EXCEPT !.pc = "sweeps", !.iteration = 1]
                 [] pc = "sweeps" ->
                      IF iteration <= config.sweeps
                      THEN [Simulation EXCEPT !.pc = "sweep",
                               !.attemptsLeft = config.ksteps * SweepUnit]
                      ELSE [Simulation EXCEPT !.pc = "returned"]
                 [] pc = "thermalEnd" ->
                      [Simulation EXCEPT !.pc = Following[pc],
                          !.iteration = @ + 1, !.log.thermal = @ + 1]
                 [] pc = "sweepEnd" ->
                      [Simulation EXCEPT !.pc = Following[pc],
                          !.iteration = @ + 1, !.log.sweeps = @ + 1],
               FALSE)

MoveNames ==
    {"moveAdd", "moveDelete", "moveFlip", "moveShift", "moveShiftD",
     "moveShiftI", "moveShiftID"}

\* the moves that attemptMove can choose with the frequencies freqs
Families(freqs) ==
    {m \in MoveNames :
        \/ m \in {"moveAdd", "moveDelete"} /\ freqs[1] > 0
        \/ m = "moveFlip" /\ freqs[2] > 0
        \/ m \in {"moveShift", "moveShiftD", "moveShiftI", "moveShiftID"} /\ freqs[3] > 0}

\* what Simulation::move* returns from the triangulation x when pick()
\* returns e and neighborGen draws k
Tried(m, x, e, k) ==
    CASE m = "moveAdd" -> moveAddWith(x, e)
      [] m = "moveDelete" -> moveDeleteWith(x, e)
      [] m = "moveFlip" -> moveFlipWith(x, e, k)
      [] m = "moveShift" -> moveShiftWith(x, e, k)
      [] m = "moveShiftD" -> moveShiftDWith(x, e, k)
      [] m = "moveShiftI" -> moveShiftIWith(x, e, k)
      [] m = "moveShiftID" -> moveShiftIDWith(x, e, k)

\* the elements pick() can return to the move, and the indices it draws
Pickable(m) ==
    IF m = "moveDelete" THEN BagSet(verticesAll) ELSE BagSet(tetras31)

Drawn(m) == IF m \in {"moveAdd", "moveDelete"} THEN {0} ELSE 0..2

\* the results of a move with element e and index k: that of the run that
\* reads no uninitialised int (g = NoLabel), and, when the move reads one,
\* those of the runs that read g, g + 1, ...
RECURSIVE Runs(_, _, _, _)
Runs(m, e, k, g) ==
    UNION {IF g = NoLabel
           THEN IF r.ub THEN {r} \cup Runs(m, e, k, 0) ELSE {r}
           ELSE (IF r.ub THEN {r} ELSE {})
                \cup (IF g + 1 \in Garbage THEN Runs(m, e, k, g + 1) ELSE {}) :
           r \in {Tried(m, Geometry(g), e, k)}}

\* the results of a move that gets as far as pick()
Outcomes(m) ==
    UNION {Runs(m, e, k, NoLabel) : e \in Pickable(m), k \in Drawn(m)}

\* the pools of the model have room for what the move creates
Room(m) ==
    CASE m = "moveAdd" -> FreeVertices >= 1 /\ FreeTetras >= 6
      [] m = "moveDelete" -> FreeTetras >= 2
      [] m = "moveFlip" -> TRUE
      [] m \in {"moveShift", "moveShiftD"} -> FreeTetras >= 3
      [] m \in {"moveShiftI", "moveShiftID"} -> FreeTetras >= 2

\* the bag a move picks from is empty: pick() stops the program
NothingToPick(m) ==
    (IF m = "moveDelete" THEN verticesAll.size ELSE tetras31.size) = 0

\* line 90: the test that ends the loop fixing the 3-volume
fixvolume(x, volfix_switch) ==
    IF volfix_switch = 0 THEN x.tetras31.size ELSE x.tetrasAll.size

VolumeHitAlways(x, s) == TRUE

SliceHitAlways(x, s) == TRUE

VolumeHit(x, s) == fixvolume(x, s.config.volfix_switch) = s.targetVolume

\* lines 103-105: the test that ends the loop fixing the 2-volume
SliceHit(x, s) == \E t \in DOMAIN x.sliceSizes : x.sliceSizes[t] = s.target2Volume

\* the simulation after one attemptMove with result r, taken with the
\* engines draws: performSweep counts it, a loop fixing a volume tests
\* whether to go on
AfterAttempt(r, moved, draws) ==
    LET s == [Simulation EXCEPT !.log.drawn = @ \cup draws,
                                !.log.fresh = @ /\ ~moved]
    IN CASE pc \in {"thermalSweep", "sweep"} ->
              [s EXCEPT !.attemptsLeft = @ - 1,
                        !.pc = IF attemptsLeft = 1 THEN After_(s) ELSE @]
         [] pc = "fix3d" -> IF VolumeHit(r, s) THEN Goto(s, After_(s)) ELSE s
         [] pc = "fix2d" -> IF SliceHit(r, s) THEN Goto(s, After_(s)) ELSE s

\* Simulation::attemptMove, from performSweep or from a loop fixing a
\* volume: the Metropolis test, which moveFlip does not make, rejects the
\* move, or the move is tried; a move that changes the triangulation uses
\* up one of movesLeft
AttemptMove ==
    /\ ~aborted /\ pc \in {"thermalSweep", "sweep", "fix3d", "fix2d"}
    /\ \E m \in Families(config.moveFreqs) :
          \/ /\ m # "moveFlip"
             /\ StepRun(lastMove, Geometry(NoLabel),
                        AfterAttempt(Geometry(NoLabel), FALSE,
                                     {"Simulation::rng"}),
                        FALSE)
          \/ /\ Room(m)
             /\ IF NothingToPick(m) THEN Stop(m)
                ELSE \E r \in Outcomes(m) :
                        /\ r.ret => movesLeft > 0
                        /\ StepRun(IF r.ok /\ ~r.ret THEN lastMove ELSE m, r,
                                   AfterAttempt(r, r.ret,
                                                {"Simulation::rng",
                                                 "Universe::rng"}),
                                   r.ret)

\* line 53
Tune ==
    /\ ~aborted /\ pc = "tune"
    /\ \E fv \in {fixvolume(Geometry(NoLabel), config.volfix_switch)} :
          StepRun("tune", Geometry(NoLabel),
                  [Goto(Simulation, After_(Simulation)) EXCEPT
                      !.k3 = tune(k3, targetVolume, fv),
                      !.log.tuned = [fixvolume |-> fv, before |-> k3]],
                  FALSE)

\* i % (thermalSweeps / 10) == 0, i % (sweeps / 10) == 0: whether the
\* export is due; undefined when the divisor is 0
Due(count) ==
    IF count \div 10 = 0 THEN {"stop", "export", "skip"}
    ELSE IF iteration % (count \div 10) = 0 THEN {"export"} ELSE {"skip"}

\* lines 55-56 and 80-81
PeriodicExport ==
    /\ ~aborted /\ pc \in {"thermalExport", "sweepExport"} /\ Measurable
    /\ \E due \in Due(IF pc = "thermalExport" THEN config.thermalSweeps
                                                ELSE config.sweeps) :
          CASE due = "stop" -> Stop("export")
            [] due = "skip" ->
                 StepRun(lastMove, Geometry(NoLabel),
                         Goto(Simulation, After_(Simulation)), FALSE)
            [] due = "export" ->
                 \E g \in IF Exported(NoLabel).ub THEN Garbage ELSE {NoLabel} :
                    StepRun("export", Exported(g),
                            [Goto(Simulation, After_(Simulation)) EXCEPT
                                !.log.fresh = TRUE], FALSE)

\* lines 58, 93 and 108: prepare()
Prepare ==
    /\ ~aborted /\ pc \in {"thermalPrepare", "prepare3d", "prepare2d"}
    /\ Measurable
    /\ \E g \in IF Prepared(NoLabel).ub THEN Garbage ELSE {NoLabel} :
          StepRun("prepare", Prepared(g),
                  [Goto(Simulation, After_(Simulation)) EXCEPT
                      !.log.fresh = TRUE], FALSE)

\* lines 59, 95 and 109: measure() of the observables registered by main,
\* VolumeProfile as the 3-d one and Ricci2d, which draws from
\* Observable::rng, as the 2-d one
Measure ==
    /\ ~aborted /\ pc \in {"thermalMeasure", "measure3d", "measure2d"}
    /\ StepRun(IF pc = "measure2d"
               THEN IF config.observables2d > 0 THEN "measure2d" ELSE lastMove
               ELSE IF config.observables3d > 0 THEN "measure3d" ELSE lastMove,
               Geometry(NoLabel),
               [Goto(Simulation, After_(Simulation)) EXCEPT
                   !.log.drawn = IF pc = "measure2d" /\ config.observables2d > 0
                                 THEN @ \cup {"Observable::rng"} ELSE @],
               FALSE)

NextRun ==
    \/ Start
    \/ LoopHead
    \/ AttemptMove
    \/ Tune
    \/ PeriodicExport
    \/ Prepare
    \/ Measure

\* the arguments main passes in a run of one thermal and one measurement
\* sweep with the observables main registers
Arguments(targetVolume_, target2Volume_, volfix_switch) ==
    [k3_ |-> 0, sweeps |-> 1, thermalSweeps |-> 1, ksteps |-> 1,
     targetVolume_ |-> targetVolume_, target2Volume_ |-> target2Volume_,
     seed |-> 1, moveFreqs |-> <<1, 1, 1>>, volfix_switch |-> volfix_switch,
     observables3d |-> 1, observables2d |-> 1]

\* a slice of size 6; 10 (3,1) tetrahedra and a slice of size 6; 25
\* tetrahedra
Configs == {Arguments(0, 6, 0), Arguments(10, 6, 0), Arguments(25, 0, 1)}

\* the loosest and the strictest manifold check
RunStrictness == {0, 3}

InitRun ==
    \E c \in Configs, s \in RunStrictness :
        \E u \in {initialize(GeometryFile, s)} :
            InitAs(u, MaxMeasured) /\ Configured(c)

SpecRun == InitRun /\ [][NextRun]_vars

\* a run that fixes no volume: start takes its next step whenever it has one
InitPlain ==
    \E s \in RunStrictness :
        \E u \in {initialize(GeometryFile, s)} :
            InitAs(u, MaxMeasured) /\ Configured(Arguments(0, 0, 0))

\* start is sequential code: as long as it has neither returned nor been
\* stopped, it goes on from the place it is at
Places == DOMAIN Following \cup {"main", "thermal", "sweeps", "sweepExport",
                                 "measure3d", "returned"}

Advance == ~aborted /\ pc # "returned" /\ pc' \in Places

FairRun == InitPlain /\ [][NextRun]_vars /\ WF_pc(Advance)

(***************************************************************************)
(* main (main.cpp): Universe::initialize on the file named in the config,  *)
(* then Simulation::start.  The value initialize returns is not looked at. *)
(***************************************************************************)
\* the geometry file, and the file with a vertex count or a tetrahedron
\* count that its sentinel does not repeat
BadFiles ==
    {[GeometryFile EXCEPT !.n0check = 7], [GeometryFile EXCEPT !.n3check = 23]}

Files == {GeometryFile} \cup BadFiles

InitMain ==
    \E u \in {BlankUniverse(0)} :
        /\ InitAs(u, MaxMeasured)
        /\ config = Arguments(0, 0, 0)
        /\ targetVolume = 0
        /\ target2Volume = 0
        /\ k3 = 0
        /\ rng = Engines
        /\ pc = "initialize"
        /\ iteration = 0
        /\ attemptsLeft = 0
        /\ log = NoLog

\* main.cpp line 54
mainInitialize ==
    /\ ~aborted /\ pc = "initialize"
    /\ \E file \in Files, s \in RunStrictness :
          \E r \in {initialize(file, s)} :
             StepRun("initialize", r @@ Geometry(NoLabel),
                     [Simulation EXCEPT !.pc = "main",
                                        !.log.rejected = ~r.ret], FALSE)

NextMain == mainInitialize \/ NextRun

SpecMain == InitMain /\ [][NextMain]_vars

(***************************************************************************)
(* Simulation::performSweep (simulation.cpp:152-183) on its own, as start  *)
(* calls it: performSweep(ksteps * 1000).  start throws the vector it      *)
(* returns away, so the walk over start above does not keep the counters;  *)
(* here they are kept in log, with the draws of the last attemptMove in    *)
(* the order the code makes them.                                          *)
(***************************************************************************)
\* the number attemptMove returns for a move, without its sign
MoveCode(m) ==
    CASE m = "moveAdd" -> 1
      [] m = "moveDelete" -> 2
      [] m = "moveFlip" -> 3
      [] m \in {"moveShift", "moveShiftD"} -> 4
      [] m \in {"moveShiftI", "moveShiftID"} -> 5

\* the draws of binGen that lead attemptMove to the move (lines 126-144)
BinDraws(m) ==
    CASE m \in {"moveAdd", "moveDelete"} -> <<"binGen">>
      [] m = "moveFlip" -> <<>>
      [] OTHER -> <<"binGen", "binGen">>

\* the draws a move makes from pick() on: moveAdd and moveDelete draw no
\* neighbour index
Sampling(m) ==
    IF m \in {"moveAdd", "moveDelete"} THEN <<"pick">>
    ELSE <<"pick", "neighborGen">>

\* a variant in which the move samples before the Metropolis draw
DrawOrderSampledFirst(m, metropolis, picked) ==
    <<"moveGen">> \o BinDraws(m)
        \o (IF picked THEN Sampling(m) ELSE <<>>)
        \o (IF metropolis THEN <<"uniform">> ELSE <<>>)

\* the draws of one attemptMove in the order of the code: moveGen (line
\* 123), binGen, then in the move uniform(rng) when ar < 1.0 (metropolis),
\* and, when the move has not returned false there (picked), pick() and
\* neighborGen
DrawOrder(m, metropolis, picked) ==
    <<"moveGen">> \o BinDraws(m)
        \o (IF metropolis THEN <<"uniform">> ELSE <<>>)
        \o (IF picked THEN Sampling(m) ELSE <<>>)

\* lines 157-160: one pass of the loop, after attemptMove has tried m and
\* the move has returned ret
Counted(m, ret, order) ==
    [Simulation EXCEPT
        !.attemptsLeft = @ - 1,
        !.log.tried = m,
        !.log.order = order,
        !.log.calls = @ + 1,
        !.log.moves[MoveCode(m)] = @ + 1,
        !.log.failed_moves[MoveCode(m)] = IF ret THEN @ ELSE @ + 1,
        !.log.succeeded[MoveCode(m)] = IF ret THEN @ + 1 ELSE @]

\* lines 156-161: attemptMove and the counting of its result
sweepAttempt ==
    /\ ~aborted /\ pc = "performSweep" /\ attemptsLeft > 0
    /\ \E m \in Families(config.moveFreqs) :
          \/ /\ m # "moveFlip"
             /\ StepRun(lastMove, Geometry(NoLabel),
                        Counted(m, FALSE, DrawOrder(m, TRUE, FALSE)), FALSE)
          \/ /\ Room(m)
             /\ IF NothingToPick(m) THEN Stop(m)
                ELSE \E r \in Outcomes(m),
                        metropolis \in IF m = "moveFlip" THEN {FALSE}
                                       ELSE BOOLEAN :
                        /\ r.ret => movesLeft > 0
                        /\ StepRun(IF r.ok /\ ~r.ret THEN lastMove ELSE m, r,
                                   Counted(m, r.ret,
                                           DrawOrder(m, metropolis, TRUE)),
                                   r.ret)

\* lines 172-174: two more attempts and one more failure when each
\* attempt has failed
Ratio(m, f) == IF m = f THEN <<m + 2, f + 1>> ELSE <<m, f>>

\* lines 164-181: the ratios are printed (as numerator and denominator
\* here) and moves is returned
sweepReturn ==
    /\ ~aborted /\ pc = "performSweep" /\ attemptsLeft <= 0
    /\ StepRun(lastMove, Geometry(NoLabel),
               [Simulation EXCEPT
                   !.pc = "swept",
                   !.log.returned = log.moves,
                   !.log.printed =
                       <<Ratio(log.moves[1] + log.moves[2],
                               log.failed_moves[1] + log.failed_moves[2]),
                         Ratio(log.moves[3], log.failed_moves[3]),
                         Ratio(log.moves[4] + log.moves[5],
                               log.failed_moves[4] + log.failed_moves[5])>>],
               FALSE)

NextSweep == sweepAttempt \/ sweepReturn

\* start at line 50 or 77, with ksteps from 0 to MaxSweep
InitSweep ==
    \E n \in 0..MaxSweep, s \in RunStrictness :
        \E u \in {initialize(GeometryFile, s)} :
            /\ InitAs(u, MaxMoves)
            /\ config = [Arguments(0, 0, 0) EXCEPT !.ksteps = n]
            /\ targetVolume = 0
            /\ target2Volume = 0
            /\ k3 = 0
            /\ rng = Engines
            /\ pc = "performSweep"
            /\ iteration = 1
            /\ attemptsLeft = n * SweepUnit
            /\ log = NoLog

SpecSweep == InitSweep /\ [][NextSweep]_vars

(***************************************************************************)
(* Observable::sphere (observable.cpp:40-69) and the scratch vector doneL, *)
(* which an observable resizes in its process() before it searches         *)
(* (observables/ricci2d.cpp:20-24).  vertexNeighbors[v] is a set in the    *)
(* model: the neighbours of v are visited in the order of their labels.    *)
(***************************************************************************)
\* the elements of a set of labels as a vector
RECURSIVE Ascending(_)
Ascending(S) ==
    IF S = {} THEN <<>>
    ELSE LET m == CHOOSE x \in S : \A y \in S : x <= y
         IN <<m>> \o Ascending(S \ {m})

\* lines 53-58: one neighbour of a vertex of the current depth; last says
\* that currentDepth == radius - 1, and doneL.at throws outside doneL
visitNeighbor(b, neighbor, last) ==
    IF ~b.ok THEN b
    ELSE IF neighbor \notin DOMAIN b.doneL THEN [b EXCEPT !.ok = FALSE]
    ELSE IF b.doneL[neighbor] THEN b
    ELSE [b EXCEPT !.flippedVertices = Append(@, neighbor),
                   !.nextDepth = Append(@, neighbor),
                   !.doneL[neighbor] = TRUE,
                   !.vertexList = IF last THEN Append(@, neighbor) ELSE @]

\* line 52: the neighbours ns of one vertex, from the i-th on
RECURSIVE visitNeighbors(_, _, _, _)
visitNeighbors(b, ns, i, last) ==
    IF i > Len(ns) THEN b
    ELSE visitNeighbors(visitNeighbor(b, ns[i], last), ns, i + 1, last)

\* line 51: the vertices of thisDepth, from the i-th on; vertexNeighbors[v]
\* outside the vector is a read of what is not there
RECURSIVE visitDepth(_, _, _, _, _)
visitDepth(b, nbrs, thisDepth, i, last) ==
    IF ~b.ok \/ i > Len(thisDepth) THEN b
    ELSE IF thisDepth[i] \notin DOMAIN nbrs
    THEN [b EXCEPT !.ok = FALSE, !.ub = TRUE]
    ELSE visitDepth(visitNeighbors(b, Ascending(nbrs[thisDepth[i]]), 1, last),
                    nbrs, thisDepth, i + 1, last)

\* lines 50-63: the loop over the depths, from currentDepth on
RECURSIVE visitDepths(_, _, _, _, _)
visitDepths(b, nbrs, thisDepth, currentDepth, radius) ==
    IF ~b.ok \/ currentDepth >= radius THEN b
    ELSE LET c == visitDepth([b EXCEPT !.nextDepth = <<>>], nbrs, thisDepth, 1,
                             currentDepth = radius - 1)
         IN visitDepths(c, nbrs, c.nextDepth, currentDepth + 1, radius)

\* Observable::sphere(origin, radius) on the neighbours nbrs and the flags
\* done: ok is false when doneL.at has thrown, vertexList is what it returns
sphere(nbrs, done, origin, radius) ==
    IF origin \notin DOMAIN done
    THEN [ok |-> FALSE, ub |-> FALSE, doneL |-> done, nextDepth |-> <<>>,
          vertexList |-> <<>>, flippedVertices |-> <<>>]
    ELSE LET b == visitDepths([ok |-> TRUE, ub |-> FALSE,
                               doneL |-> [done EXCEPT ![origin] = TRUE],
                               nextDepth |-> <<>>, vertexList |-> <<>>,
                               flippedVertices |-> <<origin>>],
                              nbrs, <<origin>>, 0, radius)
         IN IF ~b.ok THEN b
            ELSE [b EXCEPT !.doneL =
                     [v \in DOMAIN @ |->
                         IF v \in Range(b.flippedVertices) THEN FALSE ELSE @[v]]]

\* ricci2d.cpp:20-24: doneL.resize(vmax + 1, false) with vmax the largest
\* label of Universe::vertices
resizeDoneL ==
    /\ ~aborted
    /\ \E vmax \in {MaxOf(Range(vertices))} :
          StepRun("resize", Geometry(NoLabel),
                  [Simulation EXCEPT
                      !.log.doneL =
                          [v \in 0..vmax |->
                              IF v \in DOMAIN log.doneL THEN log.doneL[v]
                              ELSE FALSE]],
                  FALSE)

\* a call sphere(origin, radius) of an observable for a vertex of the
\* triangulation; an exception of doneL.at ends the program
sphereCall ==
    /\ ~aborted
    /\ \E origin \in BagSet(verticesAll), radius \in 0..MaxRadius :
          \E b \in {sphere(vertexNeighbors, log.doneL, origin, radius)} :
             IF ~b.ok THEN Stop("sphere")
             ELSE StepRun("sphere", Geometry(NoLabel),
                          [Simulation EXCEPT
                              !.log.doneL = b.doneL,
                              !.log.sphere = [origin |-> origin,
                                              radius |-> radius,
                                              list |-> b.vertexList]],
                          FALSE)

\* moves, prepare(), and an observable that resizes doneL and searches
NextSphere == moveAdd \/ prepare \/ resizeDoneL \/ sphereCall

\* main has read the geometry; the measurements have not begun
InitSphere ==
    \E s \in RunStrictness :
        \E u \in {initialize(GeometryFile, s)} :
            InitAs(u, MaxMeasured) /\ Configured(NoConfig)

SpecSphere == InitSphere /\ [][NextSphere]_vars

\* calls of tune on their own: the target volumes, the distances of
\* fixvolume from the target on both sides of every border, and the
\* largest k3, in units of delta_k3, from which a call is still made
TuneTargets == {0, 100, 1000, 20000}

TuneDiffs == {0, 1, 2, 3, 5, 6, 40, 41, 50, 51, 500, 501, 1000, 1001, 10000, 10001}

MaxK3 == 1000

TuneVolumes(tv) ==
    {fv \in {tv - d : d \in TuneDiffs} \cup {tv + d : d \in TuneDiffs} : fv >= 0}

InitTune ==
    \E tv \in TuneTargets :
        \E u \in {BlankUniverse(0)} :
            /\ InitAs(u, 0)
            /\ config = Arguments(tv, 0, 0)
            /\ targetVolume = tv
            /\ target2Volume = 0
            /\ k3 = 0
            /\ rng = Engines
            /\ pc = "tune"
            /\ iteration = 1
            /\ attemptsLeft = 0
            /\ log = NoLog

tuneCall ==
    /\ pc = "tune" /\ k3 >= -MaxK3 /\ k3 <= MaxK3
    /\ \E fv \in TuneVolumes(targetVolume) :
          /\ k3' = tune(k3, targetVolume, fv)
          /\ log' = [log EXCEPT !.tuned = [fixvolume |-> fv, before |-> k3]]
          /\ lastMove' = "tune"
    /\ UNCHANGED <<Vertex, Tetra, tetrasAll, tetras31, verticesAll, slabSizes,
                   sliceSizes, nSlices, strictness, geometry, caller, config,
                   targetVolume, target2Volume, rng, pc, iteration,
                   attemptsLeft, aborted, movesLeft>>

SpecTune == InitTune /\ [][tuneCall]_vars

(***************************************************************************)
(* The triangulation read off the state, the way Universe::check reads it. *)
(***************************************************************************)
LiveTetras == Live(Tetra)
LiveVertices == Live(Vertex)

vsOf(t) == Tetra.elements[t].vs
tnbrOf(t) == Tetra.elements[t].tnbr
typeOf(t) == Tetra.elements[t].type
timeOf(v) == Vertex.elements[v].time

\* the labels a Bag answers contains() for
BagMembers(b) == {obj \in DOMAIN b.indices : BagContains(b, obj)}

Live31 == {t \in LiveTetras : typeOf(t) = "31"}
Live13 == {t \in LiveTetras : typeOf(t) = "13"}
Live22 == {t \in LiveTetras : typeOf(t) = "22"}

RECURSIVE SumOver(_, _)
SumOver(f, S) ==
    IF S = {} THEN 0
    ELSE LET x == CHOOSE y \in S : TRUE IN f[x] + SumOver(f, S \ {x})

ShiftMoves == {"moveShift", "moveShiftD", "moveShiftI", "moveShiftID"}

\* the run has not been stopped by an assert and the last thing that
\* changed the triangulation is the move called name
After(name) == ~aborted /\ lastMove = name

(***************************************************************************)
(* C1.  For every live tetrahedron t and every i, t.tnbr[i] is live (a     *)
(* member of tetrasAll), differs from t, shares exactly 3 vertices with t  *)
(* and has t as its neighbour opposite the vertex it does not share.       *)
(***************************************************************************)
C1_NeighboursConsistent ==
    \A t \in LiveTetras : \A i \in 1..4 :
        \E n \in {tnbrOf(t)[i]} :
           /\ n \in LiveTetras
           /\ BagContains(tetrasAll, n)
           /\ n # t
           /\ Cardinality(Range(vsOf(t)) \cap Range(vsOf(n))) = 3
           /\ \A j \in 1..4 : vsOf(n)[j] \notin Range(vsOf(t)) => tnbrOf(n)[j] = t

(***************************************************************************)
(* C2.  For every live vertex v, v.cnum is the number of live tetrahedra   *)
(* that have v among their four vertices.                                  *)
(***************************************************************************)
C2_CnumCounts ==
    \A v \in LiveVertices :
        Vertex.elements[v].cnum =
            Cardinality({t \in LiveTetras : v \in Range(vsOf(t))})

(***************************************************************************)
(* C3.  For every live vertex v, v.scnum is the number of live (3,1)       *)
(* tetrahedra that have v in their base vs[0..2]; a shift or inverse shift *)
(* leaves every scnum as it was.                                           *)
(***************************************************************************)
ScnumCounts ==
    \A v \in LiveVertices :
        Vertex.elements[v].scnum =
            Cardinality({t \in Live31 : v \in Range(SubSeq(vsOf(t), 1, 3))})

ShiftKeepsScnum ==
    (~aborted' /\ movesLeft' = movesLeft - 1 /\ lastMove' \in ShiftMoves)
        => \A v \in DOMAIN Vertex.elements :
              Vertex'.elements[v].scnum = Vertex.elements[v].scnum

C3_ScnumCounts == [](ScnumCounts) /\ [][ShiftKeepsScnum]_vars

(***************************************************************************)
(* C4.  Every live vertex v has v.tetra a live (3,1) tetrahedron with v    *)
(* among its base vertices vs[0..2].                                       *)
(***************************************************************************)
C4_VertexTetra ==
    \A v \in LiveVertices :
        \E t \in {Vertex.elements[v].tetra} :
           /\ t \in Live31
           /\ v \in Range(SubSeq(vsOf(t), 1, 3))

(***************************************************************************)
(* C5.  Every live tetrahedron has four distinct vertices in two           *)
(* cyclically adjacent slices s and s+1 mod nSlices, its type is the       *)
(* lower/upper split of its vertices and vs is ordered by that type:       *)
(* (3,1) vs[0..2] lower, (1,3) vs[0] lower, (2,2) vs[0..1] lower.          *)
(***************************************************************************)
LowerCount(t) ==
    IF typeOf(t) = "31" THEN 3 ELSE IF typeOf(t) = "22" THEN 2
    ELSE IF typeOf(t) = "13" THEN 1 ELSE 0

C5_TetraShape ==
    \A t \in LiveTetras :
        /\ Cardinality(Range(vsOf(t))) = 4
        /\ Range(vsOf(t)) \subseteq LiveVertices
        /\ LowerCount(t) > 0
        /\ \E s \in 0..(nSlices - 1) :
              /\ \A i \in 1..LowerCount(t) : timeOf(vsOf(t)[i]) = s
              /\ \A i \in (LowerCount(t) + 1)..4 :
                    timeOf(vsOf(t)[i]) = (s + 1) % nSlices

(***************************************************************************)
(* C6.  A live (3,1) has tnbr[0..2] of type (3,1) or (2,2) and tnbr[3] of  *)
(* type (1,3); a live (1,3) has tnbr[0] of type (3,1) and tnbr[1..3] of    *)
(* type (1,3) or (2,2).                                                    *)
(***************************************************************************)
C6_NeighbourTypes ==
    \A t \in LiveTetras :
        /\ typeOf(t) = "31" =>
              /\ \A i \in 1..3 : typeOf(tnbrOf(t)[i]) \in {"31", "22"}
              /\ typeOf(tnbrOf(t)[4]) = "13"
        /\ typeOf(t) = "13" =>
              /\ typeOf(tnbrOf(t)[1]) = "31"
              /\ \A i \in 2..4 : typeOf(tnbrOf(t)[i]) \in {"13", "22"}

(***************************************************************************)
(* C7.  The Bags mirror the Pools: tetrasAll holds exactly the live        *)
(* tetrahedra and tetrasAll.size() = Tetra::size(), tetras31 holds exactly *)
(* the live (3,1) tetrahedra, verticesAll exactly the live vertices.       *)
(***************************************************************************)
BagMirrors(b, S) ==
    /\ BagMembers(b) = S
    /\ BagSet(b) = S
    /\ b.size = Cardinality(S)

C7_BagsMirrorPools ==
    /\ BagMirrors(tetrasAll, LiveTetras)
    /\ tetrasAll.size = PoolSize(Tetra)
    /\ BagMirrors(tetras31, Live31)
    /\ BagMirrors(verticesAll, LiveVertices)
    /\ verticesAll.size = PoolSize(Vertex)

\* a move that creates and destroys objects has been carried out
C7_Witness ==
    /\ After("moveShiftI")
    /\ C7_BagsMirrorPools
    /\ Tetra.first # Tetra.total

(***************************************************************************)
(* C8.  The sum of sliceSizes over all slices is |tetras31| and the sum of *)
(* slabSizes over all slabs is |tetrasAll|.                                *)
(***************************************************************************)
C8_SizesSum ==
    /\ SumOver(sliceSizes, DOMAIN sliceSizes) = tetras31.size
    /\ SumOver(slabSizes, DOMAIN slabSizes) = tetrasAll.size

\* the sums after a move that changed both vectors
C8_Witness ==
    /\ After("moveAdd")
    /\ tetras31.size = 10
    /\ tetrasAll.size = 28
    /\ SumOver(sliceSizes, DOMAIN sliceSizes) = 10
    /\ SumOver(slabSizes, DOMAIN slabSizes) = 28

(***************************************************************************)
(* C9.  For every slab s, slabSizes[s] is the number of live tetrahedra    *)
(* whose lower slice is s (those between the slices s and s+1 mod          *)
(* nSlices), whatever their type.                                          *)
(***************************************************************************)
\* vs[0] lies in the lower slice for each of the three types
LowerSlice(t) == timeOf(vsOf(t)[1])

C9_SlabSizes ==
    \A s \in DOMAIN slabSizes :
        slabSizes[s] = Cardinality({t \in LiveTetras : LowerSlice(t) = s})

(***************************************************************************)
(* C10.  As claimed: |tetrasAll| - |tetras31| is even and equals           *)
(* |tetras13| + |tetras22|.                                                *)
(***************************************************************************)
C10_EvenDifference ==
    /\ (tetrasAll.size - tetras31.size) % 2 = 0
    /\ tetrasAll.size - tetras31.size = Cardinality(Live13) + Cardinality(Live22)

(***************************************************************************)
(* C10, amended.  |tetrasAll| - |tetras31| equals |tetras13| +             *)
(* |tetras22|; it need not be even.                                        *)
(***************************************************************************)
C10_Difference ==
    tetrasAll.size - tetras31.size = Cardinality(Live13) + Cardinality(Live22)

\* one shift has been carried out: the difference holds and is odd
C10_Witness ==
    /\ After("moveShiftI")
    /\ C10_Difference
    /\ (tetrasAll.size - tetras31.size) % 2 = 1

(***************************************************************************)
(* The calls of the Universe move functions that the Simulation can make   *)
(* in the current state: the arguments its move functions hand over once   *)
(* their own tests have passed (simulation.cpp).                           *)
(***************************************************************************)
Now == Universe(NoLabel)

AddArgs == BagSet(tetras31)

DeleteArgs ==
    {v \in BagSet(verticesAll) : V(Now, v).cnum = 6 /\ V(Now, v).scnum = 3}

FlipArgs ==
    {a \in {<<t, tnbrOf(t)[n + 1]>> : t \in BagSet(tetras31), n \in 0..2} :
        /\ is31(Now, a[2])
        /\ neighborsTetra(Now, tnbrOf(a[1])[4], tnbrOf(a[2])[4])}

ShiftArgs ==
    {a \in {<<t, tnbrOf(t)[n + 1]>> : t \in BagSet(tetras31), n \in 0..2} :
        is22(Now, a[2])}

ShiftDArgs ==
    {a \in {<<tnbrOf(tv)[4], tnbrOf(tnbrOf(tv)[4])[n + 2]>> :
                tv \in BagSet(tetras31), n \in 0..2} :
        is22(Now, a[2])}

FacePair(l, r) ==
    /\ is22(Now, l) /\ is22(Now, r) /\ neighborsTetra(Now, l, r)
    /\ SharedVertices(Now, l, r) = 3

ShiftIArgs ==
    {a \in {<<t, tnbrOf(t)[n + 1], tnbrOf(t)[((n + 2) % 3) + 1]>> :
                t \in BagSet(tetras31), n \in 0..2} :
        FacePair(a[2], a[3])}

ShiftIDArgs ==
    {a \in {<<tnbrOf(tv)[4], tnbrOf(tnbrOf(tv)[4])[n + 2],
              tnbrOf(tnbrOf(tv)[4])[((n + 2) % 3) + 2]>> :
                tv \in BagSet(tetras31), n \in 0..2} :
        FacePair(a[2], a[3])}

\* the Universe that the run r of a function has left is the current one
SameUniverse(r) ==
    /\ r.Vertex = Vertex
    /\ r.Tetra = Tetra
    /\ r.tetrasAll = tetrasAll
    /\ r.tetras31 = tetras31
    /\ r.verticesAll = verticesAll
    /\ r.slabSizes = slabSizes
    /\ r.sliceSizes = sliceSizes
    /\ r.nSlices = nSlices

\* the run r went to its end and returned false
ReturnedFalse(r) == r.ok /\ ~r.ret

(***************************************************************************)
(* C11.  A Universe move function that returns false leaves the whole      *)
(* Universe (vertex and tetrahedron records, Pool free lists and sizes,    *)
(* Bags, slabSizes, sliceSizes) as it was before the call.                 *)
(***************************************************************************)
\* a run that has read an uninitialised int is taken for every value that
\* the int can hold
Kept(r) == ReturnedFalse(r) => SameUniverse(r)

C11_FalseKeepsState ==
    ~aborted =>
        /\ \A t \in AddArgs :
              \E r \in {move26(Now, t)} :
                 /\ Kept(r)
                 /\ r.ub => \A g \in Garbage : Kept(move26(Universe(g), t))
        /\ \A v \in DeleteArgs :
              \E r \in {move62(Now, v)} :
                 /\ Kept(r)
                 /\ r.ub => \A g \in Garbage : Kept(move62(Universe(g), v))
        /\ \A a \in FlipArgs :
              \E r \in {move44(Now, a[1], a[2])} :
                 /\ Kept(r)
                 /\ r.ub => \A g \in Garbage : Kept(move44(Universe(g), a[1], a[2]))
        /\ \A a \in ShiftArgs :
              \E r \in {move23u(Now, a[1], a[2])} :
                 /\ Kept(r)
                 /\ r.ub => \A g \in Garbage : Kept(move23u(Universe(g), a[1], a[2]))
        /\ \A a \in ShiftDArgs :
              \E r \in {move23d(Now, a[1], a[2])} :
                 /\ Kept(r)
                 /\ r.ub => \A g \in Garbage : Kept(move23d(Universe(g), a[1], a[2]))
        /\ \A a \in ShiftIArgs :
              \E r \in {move32u(Now, a[1], a[2], a[3])} :
                 /\ Kept(r)
                 /\ r.ub => \A g \in Garbage :
                               Kept(move32u(Universe(g), a[1], a[2], a[3]))
        /\ \A a \in ShiftIDArgs :
              \E r \in {move32d(Now, a[1], a[2], a[3])} :
                 /\ Kept(r)
                 /\ r.ub => \A g \in Garbage :
                               Kept(move32d(Universe(g), a[1], a[2], a[3]))

\* after a move, a (4,4)-move and a (2,3)-move that return false and keep
\* the Universe
C11_Witness ==
    /\ After("moveAdd")
    /\ \E a \in FlipArgs :
          \E r \in {move44(Now, a[1], a[2])} : ReturnedFalse(r) /\ SameUniverse(r)
    /\ \E a \in ShiftArgs :
          \E r \in {move23u(Now, a[1], a[2])} : ReturnedFalse(r) /\ SameUniverse(r)

(***************************************************************************)
(* C12.  Simulation::attemptMove answers with a positive number (the move  *)
(* function of the Simulation has returned true) only if the attempt has   *)
(* changed the Universe.                                                   *)
(***************************************************************************)
universe == <<Vertex, Tetra, tetrasAll, tetras31, verticesAll, slabSizes,
              sliceSizes, nSlices>>

\* the step is an attempt that the Simulation counts as carried out
Accepted == ~aborted' /\ movesLeft' = movesLeft - 1

C12_AcceptedHasMutated == [][Accepted => universe' # universe]_vars

(***************************************************************************)
(* C13.  As claimed: move26 raises |tetrasAll| by 4 and |tetras31| by 3,   *)
(* and creates exactly one vertex, which has cnum = 6 and scnum = 3.       *)
(***************************************************************************)
\* the step is a moveAdd that has run move26 to its end
AddStep == Accepted /\ lastMove' = "moveAdd"

\* the step has created one vertex, with cnum 6 and scnum 3, and destroyed
\* none
OneVertexCreated ==
    /\ Live(Vertex) \subseteq Live(Vertex')
    /\ Cardinality(Live(Vertex') \ Live(Vertex)) = 1
    /\ \A v \in Live(Vertex') \ Live(Vertex) :
          /\ Vertex'.elements[v].cnum = 6
          /\ Vertex'.elements[v].scnum = 3
          /\ BagContains(verticesAll', v)

C13_AddCountsThree ==
    [][AddStep => /\ tetrasAll'.size = tetrasAll.size + 4
                  /\ tetras31'.size = tetras31.size + 3
                  /\ OneVertexCreated]_vars

(***************************************************************************)
(* C13, amended.  move26 raises |tetrasAll| by 4 and |tetras31| by 2 (it   *)
(* adds three (3,1) tetrahedra and removes t), and creates exactly one     *)
(* vertex, which has cnum = 6 and scnum = 3.                               *)
(***************************************************************************)
C13_AddCounts ==
    [][AddStep => /\ tetrasAll'.size = tetrasAll.size + 4
                  /\ tetras31'.size = tetras31.size + 2
                  /\ OneVertexCreated]_vars

\* two (2,6)-moves have been carried out on the first geometry
C13_Witness ==
    /\ After("moveAdd")
    /\ movesLeft = 0
    /\ tetrasAll.size = 32
    /\ tetras31.size = 12
    /\ Cardinality({v \in LiveVertices : Vertex.elements[v].cnum = 6
                                         /\ Vertex.elements[v].scnum = 3}) >= 1

(***************************************************************************)
(* The states Universe::check accepts, together with the counts and the    *)
(* ordering the move functions rely on.                                    *)
(***************************************************************************)
ScnumBound ==
    \A v \in LiveVertices :
        /\ strictness >= 1 => Vertex.elements[v].scnum >= 2
        /\ strictness >= 2 => Vertex.elements[v].scnum >= 3

ValidState ==
    /\ ~aborted
    /\ C1_NeighboursConsistent
    /\ C2_CnumCounts
    /\ ScnumCounts
    /\ C4_VertexTetra
    /\ C5_TetraShape
    /\ C6_NeighbourTypes
    /\ C7_BagsMirrorPools
    /\ ScnumBound

\* a tetrahedron without its label: its type and its set of vertices
Content(u, t) == <<T(u, t).type, Range(T(u, t).vs)>>

Contents(u) == {Content(u, t) : t \in Live(u.Tetra)}

\* which content lies opposite which vertex of which content
Adjacency(u) ==
    {<<Content(u, t), T(u, t).vs[i], Content(u, T(u, t).tnbr[i])>> :
        t \in Live(u.Tetra), i \in 1..4}

\* (type, vertex-time tuple) of every live tetrahedron, as a bag
TimeTuples(u) ==
    LET tuple(t) == <<T(u, t).type,
                      [i \in 1..4 |-> V(u, T(u, t).vs[i]).time]>>
        S == {tuple(t) : t \in Live(u.Tetra)}
    IN  [x \in S |-> Cardinality({t \in Live(u.Tetra) : tuple(t) = x})]

\* w is u up to the labels of its tetrahedra
Restored(u, w) ==
    /\ w.tetrasAll.size = u.tetrasAll.size
    /\ w.tetras31.size = u.tetras31.size
    /\ w.verticesAll.size = u.verticesAll.size
    /\ w.slabSizes = u.slabSizes
    /\ w.sliceSizes = u.sliceSizes
    /\ Live(w.Vertex) = Live(u.Vertex)
    /\ BagSet(w.verticesAll) = BagSet(u.verticesAll)
    /\ \A v \in Live(u.Vertex) :
          /\ V(w, v).cnum = V(u, v).cnum
          /\ V(w, v).scnum = V(u, v).scnum
          /\ V(w, v).time = V(u, v).time
    /\ Cardinality(Live(w.Tetra)) = Cardinality(Live(u.Tetra))
    /\ Cardinality(BagSet(w.tetras31)) = Cardinality(BagSet(u.tetras31))
    /\ TimeTuples(w) = TimeTuples(u)
    /\ Contents(w) = Contents(u)
    /\ Adjacency(w) = Adjacency(u)

\* move26(t), then move62 on the vertex move26 has created
AddThenDelete(u, t) == move62(move26(u, t), u.Vertex.first)

RoundTrip(u, t) ==
    \E r \in {AddThenDelete(u, t)} : r.ok /\ r.ret /\ Restored(u, r)

(***************************************************************************)
(* C14.  In every valid state, at every strictness level and for every     *)
(* live (3,1) tetrahedron t: move26(t) followed by move62 on the vertex it *)
(* created returns true and gives the Universe back up to the labels: the  *)
(* same sizes of tetrasAll, tetras31 and verticesAll, the same slabSizes   *)
(* and sliceSizes, the same cnum and scnum at every vertex, the same bag   *)
(* of (type, vertex-time tuple) and the same contents with the same        *)
(* adjacency.                                                              *)
(***************************************************************************)
C14_AddDeleteRestores ==
    (ValidState /\ FreeVertices >= 1 /\ FreeTetras >= 6) =>
        \A t \in AddArgs :
            /\ RoundTrip(Now, t)
            /\ AddThenDelete(Now, t).ub =>
                  \A g \in Garbage : RoundTrip(Universe(g), t)

\* the round trip has been made in a state that moves have led to and in
\* which the labels handed out again are not the ones given back
C14_Witness ==
    /\ ValidState
    /\ After("moveShift")
    /\ movesLeft = 0
    /\ \E t \in AddArgs :
          /\ RoundTrip(Now, t)
          /\ AddThenDelete(Now, t).Tetra # Tetra

(***************************************************************************)
(* A (4,4)-move and the (4,4)-move on the pair it has made.                *)
(***************************************************************************)
\* the two (3,1) tetrahedra of the move and the (1,3) tetrahedra above them
Involved(u, a) == {a[1], a[2], T(u, a[1]).tnbr[4], T(u, a[2]).tnbr[4]}

\* the adjacency that the tetrahedra of S take part in, from either side
AdjacencyOf(u, S) ==
    {<<Content(u, t), T(u, t).vs[i], Content(u, T(u, t).tnbr[i])>> :
        t \in {x \in Live(u.Tetra) :
                 x \in S \/ \E j \in 1..4 : T(u, x).tnbr[j] \in S},
        i \in 1..4}

\* the vertices of the base triangles of the pair
BaseVertices(u, a) ==
    Range(SubSeq(T(u, a[1]).vs, 1, 3)) \cup Range(SubSeq(T(u, a[2]).vs, 1, 3))

\* the spatial edge the pair shares
SharedEdge(u, a) ==
    Range(SubSeq(T(u, a[1]).vs, 1, 3)) \cap Range(SubSeq(T(u, a[2]).vs, 1, 3))

\* w has the pair a of u, its edge, its counts and its adjacency again
FlipRestored(u, w, a) ==
    /\ SharedEdge(w, a) = SharedEdge(u, a)
    /\ \A v \in BaseVertices(u, a) :
          /\ V(w, v).scnum = V(u, v).scnum
          /\ V(w, v).cnum = V(u, v).cnum
    /\ {Content(w, t) : t \in Involved(u, a)} =
          {Content(u, t) : t \in Involved(u, a)}
    /\ AdjacencyOf(w, Involved(u, a)) = AdjacencyOf(u, Involved(u, a))

\* the second move in either order of its arguments
FlipBack(u, a) ==
    \A b \in {a, <<a[2], a[1]>>} :
        \E r \in {move44(move44(u, a[1], a[2]), b[1], b[2])} :
            r.ok /\ r.ret /\ FlipRestored(u, r, a)

Flipped(u, a) == \E r \in {move44(u, a[1], a[2])} : r.ok /\ r.ret

(***************************************************************************)
(* C15.  In a valid state, if move44(t012, t230) returns true, then a      *)
(* second move44 on the two (3,1) tetrahedra that now share the new        *)
(* spatial edge returns true as well and gives the original triangulation  *)
(* back: the edge (v0, v2) is there again, the four vertices have their    *)
(* scnum and cnum again, and the vertex sets and the adjacency of the four *)
(* tetrahedra are the original ones up to the labels.                      *)
(***************************************************************************)
C15_FlipTwiceRestores ==
    ValidState =>
        \A a \in FlipArgs :
            /\ Flipped(Now, a) => FlipBack(Now, a)
            /\ move44(Now, a[1], a[2]).ub =>
                  \A g \in Garbage :
                      Flipped(Universe(g), a) => FlipBack(Universe(g), a)

(***************************************************************************)
(* The vertices a (6,2)-move is not meant for.                             *)
(***************************************************************************)
NotDeletable ==
    {v \in BagSet(verticesAll) : V(Now, v).cnum # 6 \/ V(Now, v).scnum # 3}

Refused(r) == ReturnedFalse(r) /\ SameUniverse(r)

(***************************************************************************)
(* C17.  move62(v) on a live vertex v with cnum # 6 or scnum # 3 returns   *)
(* false and leaves the Universe as it is.                                 *)
(***************************************************************************)
C17_Move62Refuses ==
    ~aborted => \A v \in NotDeletable : Refused(move62(Now, v))

(***************************************************************************)
(* C17, amended.  The test is the one of Simulation::moveDelete: on a      *)
(* live vertex with cnum # 6 or scnum # 3 moveDelete returns false and     *)
(* leaves the Universe as it is, without calling move62; move62 itself     *)
(* asserts cnum = 6 and does not return when cnum # 6.                     *)
(***************************************************************************)
C17_DeleteRefuses ==
    ~aborted =>
        \A v \in NotDeletable :
            /\ Refused(moveDeleteWith(Now, v))
            /\ V(Now, v).cnum # 6 => ~move62(Now, v).ok

\* after a (2,6)-move there are vertices of both kinds, and moveDelete has
\* refused one
C17_Witness ==
    /\ After("moveAdd")
    /\ DeleteArgs # {}
    /\ \E v \in NotDeletable :
          /\ V(Now, v).cnum # 6
          /\ Refused(moveDeleteWith(Now, v))

(***************************************************************************)
(* C18.  With strictness = 1 every live vertex has scnum >= 2 and with     *)
(* strictness = 2 every live vertex has scnum >= 3, after any sequence of  *)
(* moves from a triangulation that satisfies the same bound.               *)
(***************************************************************************)
C18_StrictScnum ==
    ~aborted =>
        \A v \in LiveVertices :
            /\ strictness = 1 => Vertex.elements[v].scnum >= 2
            /\ strictness = 2 => Vertex.elements[v].scnum >= 3

\* with strictness 1 a flip has brought a vertex down to the bound, and
\* the flips that would take it below are refused
C18_Witness ==
    /\ After("moveFlip")
    /\ strictness = 1
    /\ \E v \in LiveVertices : Vertex.elements[v].scnum = 2
    /\ \A a \in FlipArgs :
          \E r \in {move44(Now, a[1], a[2])} :
             (r.ok /\ r.ret) =>
                \A v \in LiveVertices : V(r, v).scnum >= 2

(***************************************************************************)
(* Spatial edges.  An edge of a slice lies in the bases of two (3,1)       *)
(* tetrahedra, so two vertices that more than two bases have in common are *)
(* joined by more than one edge.                                           *)
(***************************************************************************)
BasesAt(elements, live, a, b) ==
    Cardinality({t \in live :
        /\ elements[t].type = "31"
        /\ {a, b} \subseteq Range(SubSeq(elements[t].vs, 1, 3))})

VertexPairs == {p \in SUBSET LiveVertices : Cardinality(p) = 2}

NoDuplicateEdges ==
    \A p \in VertexPairs :
        \E a \in p : \E b \in p \ {a} :
            BasesAt(Tetra.elements, LiveTetras, a, b) <= 2

\* the step makes an edge between two vertices only where there was none
NewEdgesAreFirst ==
    \A p \in VertexPairs :
        \E a \in p : \E b \in p \ {a} :
            BasesAt(Tetra'.elements, Live(Tetra'), a, b) >
                BasesAt(Tetra.elements, LiveTetras, a, b)
            => BasesAt(Tetra.elements, LiveTetras, a, b) = 0

(***************************************************************************)
(* C19.  Under strictness 3 no move returns true that makes a spatial edge *)
(* between two vertices an edge joins already, and after any sequence of   *)
(* moves from a triangulation without duplicate spatial edges no two       *)
(* distinct spatial edges join the same two vertices.                      *)
(***************************************************************************)
C19_NoDuplicateEdges ==
    /\ []((~aborted /\ strictness = 3) => NoDuplicateEdges)
    /\ [][(strictness = 3 /\ Accepted) => NewEdgesAreFirst]_vars

\* with strictness 3 a flip has been made, and a flip that would join two
\* vertices a second time is refused
C19_Witness ==
    /\ strictness = 3
    /\ After("moveFlip")
    /\ \E a \in FlipArgs :
          /\ BasesAt(Tetra.elements, LiveTetras,
                     getVertexOppositeTetra(Now, a[1], a[2]),
                     getVertexOppositeTetra(Now, a[2], a[1])) > 0
          /\ V(Now, T(Now, a[1]).vs[1]).scnum > 3
          /\ V(Now, T(Now, a[1]).vs[2]).scnum > 3
          /\ V(Now, T(Now, a[1]).vs[3]).scnum > 3
          /\ ReturnedFalse(move44(Now, a[1], a[2]))

(***************************************************************************)
(* The half-edges and triangles after updateGeometry.                      *)
(***************************************************************************)
\* the last thing the program did was updateGeometry, called by prepare or
\* by exportGeometry
Updated == ~aborted /\ lastMove \in {"prepare", "export"}

adjOf(h) == HalfEdge.elements[h].adj
nextOf(h) == HalfEdge.elements[h].next
prevOf(h) == HalfEdge.elements[h].prev

(***************************************************************************)
(* C20.  After every call of updateGeometry, the first one, a repeated one *)
(* and one after further moves, there are 3 |tetras31| live half-edges and *)
(* |tetras31| live triangles, and every live half-edge h has               *)
(* h.adj.adj = h, h.next.next.next = h and h.prev.prev.prev = h.           *)
(***************************************************************************)
C20_HalfEdges ==
    Updated =>
        /\ PoolSize(HalfEdge) = 3 * tetras31.size
        /\ Len(halfEdges) = 3 * tetras31.size
        /\ PoolSize(Triangle) = tetras31.size
        /\ Len(triangles) = tetras31.size
        /\ \A h \in Range(halfEdges) :
              /\ adjOf(h) \in Range(halfEdges)
              /\ adjOf(adjOf(h)) = h
              /\ nextOf(nextOf(nextOf(h))) = h
              /\ prevOf(prevOf(prevOf(h))) = h

(***************************************************************************)
(* exportGeometry followed by initialize of the file that was written.     *)
(***************************************************************************)
\* Universe::initialize run on the file of the last export, the pools and
\* bags empty before it
Reimported == initialize(outFile, strictness)

Types == {"31", "13", "22"}

\* the number of tetrahedra of tetrasAll of one type
TypeCount(u, type) == Cardinality({t \in BagSet(u.tetrasAll) : T(u, t).type = type})

Coordination(u, v) == <<V(u, v).cnum, V(u, v).scnum>>

\* how many vertices of verticesAll carry each pair (cnum, scnum)
Histogram(u) ==
    LET vs == BagSet(u.verticesAll)
    IN [p \in {Coordination(u, v) : v \in vs} |->
           Cardinality({v \in vs : Coordination(u, v) = p})]

SameContent(u, w) ==
    /\ w.verticesAll.size = u.verticesAll.size
    /\ \A type \in Types : TypeCount(w, type) = TypeCount(u, type)
    /\ w.sliceSizes = u.sliceSizes
    /\ Histogram(w) = Histogram(u)

C21_BagConsistent ==
    LET b == verticesAll
        used == 0..(b.size - 1)
    IN /\ b.size = Cardinality(caller.members)
       /\ {b.elements[i] : i \in used} = caller.members
       /\ \A i, j \in used : b.elements[i] = b.elements[j] => i = j
       /\ \A i \in used : b.indices[b.elements[i]] = i
       /\ \A l \in DOMAIN b.indices : BagContains(b, l) <=> l \in caller.members

\* a remove that has left the two members that were added last, in the
\* other order: the last element was moved into the slot of the one removed
C21_Witness ==
    /\ After("remove")
    /\ caller.members = {1, 2}
    /\ verticesAll.elements[0] = 2 /\ verticesAll.elements[1] = 1
    /\ verticesAll.elements[2] = EMPTY

(***************************************************************************)
(* Pool<Vertex> in a run of create() and destroy(l).                       *)
(***************************************************************************)
\* the slots that create() would hand out one after the other: first, then
\* ~next of each, up to the end of the array or n slots
RECURSIVE FreeList(_, _, _)
FreeList(p, i, n) ==
    IF n = 0 \/ i \notin DOMAIN p.elements THEN <<>>
    ELSE <<i>> \o FreeList(p, BitNot(p.elements[i].next), n - 1)

FreeSlots == FreeList(Vertex, Vertex.first, VertexCap + 1)

PoolConsistent ==
    /\ PoolSize(Vertex) = Cardinality(caller.alive)
    /\ Range(FreeSlots) = DOMAIN Vertex.elements \ caller.alive
    /\ Len(FreeSlots) = VertexCap - Cardinality(caller.alive)
    /\ \A l \in caller.alive : Vertex.elements[l].next = l

\* a call that has changed the pool
PoolStep == Vertex' # Vertex

OthersKept ==
    /\ lastMove' = "create" =>
           /\ caller'.returned \in DOMAIN Vertex.elements
           /\ caller'.returned \notin caller.alive
    /\ \A l \in caller.alive \cap caller'.alive :
           Vertex'.elements[l] = Vertex.elements[l]

(***************************************************************************)
(* C22.  As long as destroy and at were called with live labels only:      *)
(* size() is the number of labels created and not destroyed, the free list *)
(* holds every other slot exactly once, a live slot holds its own label,   *)
(* create() returns a label that was not live, and a create or destroy     *)
(* leaves the record of every other live label as it was.                  *)
(***************************************************************************)
C22_PoolConsistent ==
    /\ [](~caller.misused => PoolConsistent)
    /\ [][(~caller'.misused /\ PoolStep) => OthersKept]_vars

\* create() has handed out label 0 a second time, 1 and 2 still live
C22_Witness ==
    /\ After("create")
    /\ ~caller.misused
    /\ caller.returned = 0
    /\ caller.alive = {0, 1, 2}
    /\ Vertex.first = 3

(***************************************************************************)
(* C23.  A call of Vertex::destroy(l) or Vertex::at(l) with a label that   *)
(* is not live stops the program: no such call ever returns.               *)
(***************************************************************************)
C23_FreedLabelStops == ~caller.misused

(***************************************************************************)
(* C24.  verticesAll.pick() called on the empty Bag stops the program: it  *)
(* returns no label and the caller is left with what it had.               *)
(***************************************************************************)
C24_EmptyPickStops ==
    [][(~aborted /\ verticesAll.size = 0 /\ lastMove' = "pick")
          => (aborted' /\ caller' = caller)]_vars

\* the program stopped in pick(), the Bag empty after an add and a remove
C24_Witness ==
    /\ aborted /\ lastMove = "pick"
    /\ verticesAll.size = 0
    /\ verticesAll.elements[0] = EMPTY

(***************************************************************************)
(* C25.  Simulation::start, called with thermalSweeps >= 1, sweeps >= 1,   *)
(* ksteps >= 1 and positive move frequencies, eventually returns, after    *)
(* exactly thermalSweeps iterations of the thermal loop and exactly sweeps *)
(* iterations of the measurement loop.                                     *)
(***************************************************************************)
C25_Returns ==
    <>(/\ pc = "returned"
       /\ log.thermal = config.thermalSweeps
       /\ log.sweeps = config.sweeps)

(***************************************************************************)
(* C26.  In the measurement loop with targetVolume > 0, the 3-d            *)
(* observables are invoked only in a state where fixvolume, tetras31.size  *)
(* when volfix_switch = 0 and tetrasAll.size otherwise, equals             *)
(* targetVolume.                                                           *)
(***************************************************************************)
\* line 95 is about to invoke the 3-d observables
AtMeasure3d == ~aborted /\ pc = "measure3d" /\ config.observables3d > 0

C26_VolumeFixed ==
    (AtMeasure3d /\ targetVolume > 0)
        => fixvolume(Now, config.volfix_switch) = targetVolume

\* the loop of line 87 has grown the 8 (3,1) tetrahedra of the file to the
\* 10 asked for
C26_Witness ==
    /\ AtMeasure3d
    /\ targetVolume = 10
    /\ config.volfix_switch = 0
    /\ tetras31.size = 10
    /\ movesLeft < MaxMeasured
    /\ log.fresh

(***************************************************************************)
(* C27.  In the measurement loop with target2Volume > 0, the 2-d           *)
(* observables are invoked only in a state where some slice t has exactly  *)
(* target2Volume (3,1) tetrahedra with their base in it, which is the      *)
(* number of spatial triangles of the slice and the value of               *)
(* sliceSizes[t].  (As first stated: ... where some slice contains exactly *)
(* target2Volume vertices.)                                                *)
(***************************************************************************)
\* line 109 is about to invoke the 2-d observables
AtMeasure2d == ~aborted /\ pc = "measure2d" /\ config.observables2d > 0

Slices == 0..(nSlices - 1)

VerticesIn(t) == {v \in LiveVertices : timeOf(v) = t}

TrianglesIn(t) == {x \in Live31 : timeOf(vsOf(x)[1]) = t}

AtMeasure ==
    /\ ~aborted
    /\ \/ pc \in {"thermalMeasure", "measure3d"} /\ config.observables3d > 0
       \/ pc = "measure2d" /\ config.observables2d > 0

InSweep == pc \in {"thermalSweep", "sweep"}

C28_FreshGeometry ==
    /\ [](AtMeasure => log.fresh)
    /\ [][InSweep => (geometry' = geometry /\ lastMove' \notin {"prepare", "export"})]_vars

\* the 2-d observables are about to be invoked on the geometry that
\* prepare() built after the move that used up the budget
C28_Witness ==
    /\ AtMeasure
    /\ pc = "measure2d"
    /\ movesLeft = 0
    /\ lastMove = "prepare"
    /\ log.fresh
    /\ log.sweeps = 0 /\ log.thermal = 1

(***************************************************************************)
(* C29.  One call of tune moves k3 against diff = targetVolume -           *)
(* fixvolume, by a step that depends on |diff| only: 1000 delta_k3 when    *)
(* |diff| is more than 5% of targetVolume, 100 delta_k3 when it is more    *)
(* than 0.2% and at most 5%, 20 delta_k3 when it is more than 0.01% and at *)
(* most 0.2%, and nothing when it is at most 0.01% of targetVolume.        *)
(***************************************************************************)
Abs(x) == IF x < 0 THEN -x ELSE x

\* the step of the claim for the distance a from the target tv, in units
\* of delta_k3
StepFor(a, tv) ==
    IF a * 100 > 5 * tv THEN 1000
    ELSE IF a * 1000 > 2 * tv THEN 100
    ELSE IF a * 10000 > tv THEN 20
    ELSE 0

C29_TuneStep ==
    After("tune") =>
        LET diff == targetVolume - log.tuned.fixvolume
            step == k3 - log.tuned.before
        IN /\ Abs(step) = StepFor(Abs(diff), targetVolume)
           /\ step # 0 => (step > 0 <=> diff < 0)

\* fixvolume 41 below the target 20000 (0.205%) after a call that was 40
\* below it (0.2%): k3 went down by 20 and then by 100
C29_Witness ==
    /\ After("tune")
    /\ targetVolume = 20000
    /\ log.tuned = [fixvolume |-> 19959, before |-> -20]
    /\ k3 = -120

(***************************************************************************)
(* C30.  Every engine a draw of the run has been taken from is the same    *)
(* one engine, Simulation::rng, and that engine has been seeded exactly    *)
(* once, with the configured seed.                                         *)
(***************************************************************************)
C30_OneStream ==
    \A e \in log.drawn :
        /\ e = "Simulation::rng"
        /\ rng[e].seed = config.seed
        /\ rng[e].seedings = 1

(***************************************************************************)
(* C31.  When Universe::initialize has returned false, because the vertex  *)
(* count or the tetrahedron count of the file does not match its sentinel, *)
(* the program goes no further: no move and no measurement is made on the  *)
(* Universe that was loaded in part.                                       *)
(***************************************************************************)
C31_BadFileStops ==
    (log.rejected /\ ~aborted) =>
        lastMove \notin MoveNames \cup {"prepare", "measure3d", "measure2d"}

(***************************************************************************)
(* The rewiring of the outer tetrahedra by a move that has run to its end  *)
(* and returned true: r is the Universe it has left, old the tetrahedra it *)
(* has destroyed.                                                          *)
(***************************************************************************)
\* the tetrahedra of r that the move has created
Created(r) == Live(r.Tetra) \ LiveTetras

\* the face of o opposite its i-th vertex
FaceOpposite(o, i) == {vsOf(o)[j] : j \in (1..4) \ {i}}

\* every slot of an outer tetrahedron that held a tetrahedron of old holds
\* the created tetrahedron on the same face, every other slot holds what
\* it held, and no live tetrahedron has a slot that holds one of old
Rewired(r, old) ==
    /\ \A o \in LiveTetras \ old :
          \A i \in 1..4 :
             IF tnbrOf(o)[i] \in old
             THEN /\ T(r, o).tnbr[i] \in Created(r)
                  /\ FaceOpposite(o, i) \subseteq Range(T(r, T(r, o).tnbr[i]).vs)
             ELSE T(r, o).tnbr[i] = tnbrOf(o)[i]
    /\ \A t \in Live(r.Tetra) : \A i \in 1..4 : T(r, t).tnbr[i] \notin old

ReturnedTrue(r) == r.ok /\ r.ret

(***************************************************************************)
(* C32.  When move23u(t31, t22) returns true, every slot of an outer       *)
(* tetrahedron that held t31 or t22 holds the new tetrahedron on the same  *)
(* face, no other slot of an outer tetrahedron has changed, and no live    *)
(* tetrahedron refers to t31 or t22.                                       *)
(***************************************************************************)
C32_Move23uRewires ==
    ~aborted =>
        \A a \in ShiftArgs :
            \E r \in {move23u(Now, a[1], a[2])} :
                ReturnedTrue(r) => Rewired(r, {a[1], a[2]})

(***************************************************************************)
(* C33.  When move32u(t31, t22l, t22r) returns true, every slot of an      *)
(* outer tetrahedron that held t31, t22l or t22r holds the new tetrahedron *)
(* on the same face, no other slot of an outer tetrahedron has changed,    *)
(* and no live tetrahedron refers to a destroyed one.                      *)
(***************************************************************************)
C33_Move32uRewires ==
    ~aborted =>
        \A a \in ShiftIArgs :
            \E r \in {move32u(Now, a[1], a[2], a[3])} :
                ReturnedTrue(r) => Rewired(r, {a[1], a[2], a[3]})

(***************************************************************************)
(* C34.  When move23d(t13, t22) returns true, every slot of an outer       *)
(* tetrahedron that held t13 or t22 holds the new tetrahedron on the same  *)
(* face, no other slot of an outer tetrahedron has changed, and no live    *)
(* tetrahedron refers to t13 or t22.                                       *)
(***************************************************************************)
C34_Move23dRewires ==
    ~aborted =>
        \A a \in ShiftDArgs :
            \E r \in {move23d(Now, a[1], a[2])} :
                ReturnedTrue(r) => Rewired(r, {a[1], a[2]})

(***************************************************************************)
(* C35.  When move32d(t13, t22l, t22r) returns true, every slot of an      *)
(* outer tetrahedron that held t13, t22l or t22r holds the new tetrahedron *)
(* on the same face, no other slot of an outer tetrahedron has changed,    *)
(* and no live tetrahedron refers to a destroyed one.                      *)
(***************************************************************************)
C35_Move32dRewires ==
    ~aborted =>
        \A a \in ShiftIDArgs :
            \E r \in {move32d(Now, a[1], a[2], a[3])} :
                ReturnedTrue(r) => Rewired(r, {a[1], a[2], a[3]})

(***************************************************************************)
(* C36: when performSweep(n) returns it has called attemptMove exactly n   *)
(* times, and the vector it returns holds for each move family 1..5 the    *)
(* number of attempts of that family that succeeded (the failures being    *)
(* counted in a vector of their own).                                      *)
(***************************************************************************)
C36_SweepCounts ==
    (~aborted /\ pc = "swept") =>
        /\ log.calls = config.ksteps * SweepUnit
        /\ \A f \in 1..5 : log.returned[f] = log.succeeded[f]

\* the places of the draws called names among the draws of the last
\* attemptMove
DrawsOf(names) == {i \in DOMAIN log.order : log.order[i] \in names}

\* the draws that choose the move: those of moveGen and binGen
Selecting == DrawsOf({"moveGen", "binGen"})

(***************************************************************************)
(* C37: within one attemptMove the selection of the move family is drawn   *)
(* first, then the sampling of the move (pick and the neighbour index),    *)
(* and the Metropolis acceptance is drawn after the sampling.              *)
(***************************************************************************)
C37_SamplingBeforeAcceptance ==
    (~aborted /\ log.order # <<>>) =>
        /\ log.order[1] = "moveGen"
        /\ \A i \in Selecting, j \in DrawsOf({"pick", "neighborGen", "uniform"}) :
               i < j
        /\ \A i \in DrawsOf({"pick", "neighborGen"}), j \in DrawsOf({"uniform"}) :
               i < j

(***************************************************************************)
(* C37, as the code has it: the selection of the move family is drawn      *)
(* first, then the Metropolis acceptance (at most once, and never in       *)
(* moveFlip), and only then pick followed by the neighbour index.          *)
(***************************************************************************)
C37_AcceptanceBeforeSampling ==
    (~aborted /\ log.order # <<>>) =>
        /\ log.order[1] = "moveGen"
        /\ \A i \in Selecting, j \in DrawsOf({"pick", "neighborGen", "uniform"}) :
               i < j
        /\ \A i \in DrawsOf({"uniform"}), j \in DrawsOf({"pick", "neighborGen"}) :
               i < j
        /\ \A i \in DrawsOf({"pick"}), j \in DrawsOf({"neighborGen"}) : i < j
        /\ Cardinality(DrawsOf({"uniform"})) <= 1
        /\ log.tried = "moveFlip" => DrawsOf({"uniform"}) = {}

\* a move has drawn the acceptance, has not been rejected, and has gone on
\* to pick and to change the triangulation
C37_Witness ==
    /\ ~aborted
    /\ log.tried = lastMove
    /\ DrawsOf({"uniform"}) # {}
    /\ DrawsOf({"pick"}) # {}
    /\ log.succeeded[MoveCode(lastMove)] > 0

\* the vertices within k steps of o in vertexNeighbors
RECURSIVE Ball(_, _)
Ball(o, k) ==
    IF k = 0 THEN {o}
    ELSE LET inner == Ball(o, k - 1)
         IN inner \cup UNION {vertexNeighbors[v] : v \in inner \cap DOMAIN vertexNeighbors}

\* the vertices at distance exactly r of o
AtDistance(o, r) == IF r = 0 THEN {o} ELSE Ball(o, r) \ Ball(o, r - 1)

\* the last thing the program did is a call of sphere, which has returned
SphereReturned == ~aborted /\ lastMove = "sphere"

(***************************************************************************)
(* C38: a call sphere(origin, r) with r >= 0 that returns has returned the *)
(* vertices at graph distance exactly r of origin in vertexNeighbors       *)
(* ({origin} for r = 0), each of them once, and has left every entry of    *)
(* doneL false.                                                            *)
(***************************************************************************)
C38_SphereExact ==
    SphereReturned =>
        /\ Range(log.sphere.list) = AtDistance(log.sphere.origin, log.sphere.radius)
        /\ Len(log.sphere.list) = Cardinality(Range(log.sphere.list))
        /\ \A v \in DOMAIN log.doneL : ~log.doneL[v]

(***************************************************************************)
(* C39: the geometry the run starts from has sliceSizes[t] / 2 + 2 live    *)
(* vertices in every slice t, with every sliceSizes[t] even; after any     *)
(* sequence of moves every slice t still has sliceSizes[t] / 2 + 2 live    *)
(* vertices and sliceSizes[t] is still even.                               *)
(***************************************************************************)
C39_EulerKept ==
    \A t \in Slices :
        /\ t \in DOMAIN sliceSizes
        /\ Cardinality(VerticesIn(t)) = sliceSizes[t] \div 2 + 2
        /\ sliceSizes[t] % 2 = 0

\* two (2,6)-moves have put two vertices into the same slice
C39_Witness ==
    /\ After("moveAdd")
    /\ movesLeft = 0
    /\ \E t \in Slices :
          sliceSizes[t] = 8 /\ Cardinality(VerticesIn(t)) = 6

(***************************************************************************)
(* C40: from a geometry in which every slice has at least 2 spatial        *)
(* triangles, no sequence of moves, at any strictness, brings a            *)
(* sliceSizes[t] below 2, and tetras31 and verticesAll are never empty, so *)
(* that pick() always finds an element.                                    *)
(***************************************************************************)
C40_SlicesStayPickable ==
    /\ \A t \in DOMAIN sliceSizes : sliceSizes[t] >= 2
    /\ tetras31.size > 0
    /\ verticesAll.size > 0
    /\ \A m \in MoveNames : ~NothingToPick(m)

\* a (6,2)-move has taken a slice back to two triangles
C40_Witness ==
    /\ After("moveDelete")
    /\ movesLeft = 0
    /\ \E t \in DOMAIN sliceSizes : sliceSizes[t] = 2
    /\ verticesAll.size = GeometryFileThin.n0

====
